---- MODULE Spec2Model ----
(***************************************************************************)
(* Model of pyxem's DiffractionGenerator                                   *)
(* (src/pyxem/generators/diffraction_generator.py).                        *)
(*                                                                         *)
(* Numbers.  The program computes in floating point; the model computes in *)
(* fixed point with integers:                                              *)
(*   - reciprocal lengths (g_hkl, reciprocal_radius, magnitude_tolerance,  *)
(*     max_excitation_error, cartesian coordinates): 10 units are the      *)
(*     length of the shortest reciprocal basis vector;                     *)
(*   - fractional coordinates in halves, occupancies in halves;            *)
(*   - exp(-x) with x in hundredths, its value in hundredths;              *)
(*   - rescaled profile intensities in thousandths (100 is 100000);        *)
(*   - Miller indices are exact integers.                                  *)
(* Rounding is floor rounding of the one division of each formula, where   *)
(* the program rounds to the nearest double.                               *)
(***************************************************************************)
EXTENDS Integers, Sequences, FiniteSets, TLC

VARIABLES wavelength, max_excitation_error, debye_waller_factors,
          threads, pc, args, pts, gs, peaks, result, previous,
          data, before, sargs, sresult, frame

vars == <<wavelength, max_excitation_error, debye_waller_factors,
          threads, pc, args, pts, gs, peaks, result, previous,
          data, before, sargs, sresult, frame>>

generator == <<wavelength, max_excitation_error, debye_waller_factors>>

\* An ElectronDiffraction signal (src/pyxem/signals/electron_diffraction.py):
\* data is self.data, sargs the call in progress on it, sresult what the
\* call returned or raised, before the data when the call started, frame
\* the local variables of find_beam_offset_cross_correlation
\* (src/pyxem/utils/expt_utils.py) while get_direct_beam_position runs it.
signal == <<data, before, sargs, sresult, frame>>

\* the calls on the generator and their frames
calls == <<threads, pc, args, pts, gs, peaks, result, previous>>

-----------------------------------------------------------------------------
(* Bounds of the model *)

\* Miller indices enumerated lie in -HklMax..HklMax on each axis; every
\* radius of Radii fits inside that box for every lattice of Structures.
HklMax == 2

Radii == {-10, 0, 10, 14, 20}

Tolerances == {0, 1, 4, 5}

MinIntensities == {0, 1, 39400, 100000}

Wavelengths == {30, 100}

ExcitationErrors == {3, 10}

DebyeWallerChoices == {[s \in {} |-> 0], [s \in {"Al"} |-> 1]}

\* Threads that may call the generator.
Procs == {1, 2}

\* The arguments of the calls made while two threads share the generator.
ConcurrentRadii == {14}

ConcurrentTolerances == {5}

ConcurrentMinIntensities == {1}

-----------------------------------------------------------------------------
(* Arithmetic *)

Abs(x) == IF x < 0 THEN -x ELSE x

\* floor of the square root
Isqrt(n) == CHOOSE r \in 0..100 : r * r <= n /\ n < (r + 1) * (r + 1)

\* exp(-x): x and the value in hundredths (1 / (1 + x + x^2/2))
ExpNeg(x) == 10000 \div (100 + x + (x * x) \div 200)

RECURSIVE SumSeq(_)
SumSeq(s) == IF s = <<>> THEN 0 ELSE Head(s) + SumSeq(Tail(s))

SeqMax(s) == CHOOSE m \in {s[i] : i \in DOMAIN s} :
                 \A i \in DOMAIN s : s[i] <= m

Range(s) == {s[i] : i \in DOMAIN s}

-----------------------------------------------------------------------------
(* Structures, lattices and the scattering table *)

\* pyxem.utils.atomic_scattering_params.ATOMIC_SCATTERING_PARAMS: element
\* symbol -> Gaussian coefficient pairs <<a_i, b_i>>.  Two elements of the
\* table, with representative coefficients.
ATOMIC_SCATTERING_PARAMS ==
    [sym \in {"Al", "Ni"} |->
        IF sym = "Al" THEN << <<3, 1>>, <<2, 2>> >>
                      ELSE << <<4, 1>>, <<1, 2>> >>]

\* A site: frac_coords (halves) and species_and_occu.items() as a sequence
\* of <<symbol, occupancy in halves>>.
Site(fc, spo) == [frac_coords |-> fc, species_and_occu |-> spo]

SimpleCubic ==
    [lattice |-> "cubic",
     sites |-> << Site(<<0, 0, 0>>, << <<"Al", 2>> >>) >>]

BodyCentred ==
    [lattice |-> "cubic",
     sites |-> << Site(<<0, 0, 0>>, << <<"Al", 2>> >>),
                  Site(<<1, 1, 1>>, << <<"Al", 2>> >>) >>]

MixedOccupancy ==
    [lattice |-> "cubic",
     sites |-> << Site(<<0, 0, 0>>, << <<"Al", 1>>, <<"Ni", 1>> >>),
                  Site(<<1, 1, 0>>, << <<"Ni", 2>> >>) >>]

Hexagonal ==
    [lattice |-> "hexagonal",
     sites |-> << Site(<<0, 0, 0>>, << <<"Ni", 2>> >>) >>]

\* "Xx" and "Yy" are no elements of ATOMIC_SCATTERING_PARAMS
UnknownSecond ==
    [lattice |-> "cubic",
     sites |-> << Site(<<0, 0, 0>>, << <<"Al", 2>> >>),
                  Site(<<1, 1, 1>>, << <<"Ni", 1>>, <<"Xx", 1>> >>) >>]

UnknownTwo ==
    [lattice |-> "cubic",
     sites |-> << Site(<<0, 0, 0>>, << <<"Yy", 2>> >>),
                  Site(<<1, 1, 1>>, << <<"Al", 1>>, <<"Xx", 1>> >>) >>]

Structures == {SimpleCubic, BodyCentred, MixedOccupancy, Hexagonal,
               UnknownSecond, UnknownTwo}

ConcurrentStructures == {SimpleCubic, Hexagonal, UnknownSecond}

\* latt.is_hexagonal()
is_hexagonal(structure) == structure.lattice = "hexagonal"

\* Squared length of the reciprocal vector hkl in units of the squared
\* length of the first reciprocal basis vector: cubic h^2 + k^2 + l^2,
\* hexagonal (c* = sqrt(2) a*) h^2 + hk + k^2 + 2 l^2.
ReciprocalNorm2(structure, hkl) ==
    IF is_hexagonal(structure)
    THEN hkl[1] * hkl[1] + hkl[1] * hkl[2] + hkl[2] * hkl[2]
         + 2 * hkl[3] * hkl[3]
    ELSE hkl[1] * hkl[1] + hkl[2] * hkl[2] + hkl[3] * hkl[3]

\* |g_hkl| in length units
Magnitude(structure, hkl) == Isqrt(100 * ReciprocalNorm2(structure, hkl))

HklBox == (-HklMax..HklMax) \X (-HklMax..HklMax) \X (-HklMax..HklMax)

\* A faulty variant of the definition that follows it:
\* the origin is not among the points.
get_points_in_sphereNoOrigin(structure, r) ==
    {[hkl |-> hkl, g_hkl |-> Magnitude(structure, hkl)] :
        hkl \in {x \in HklBox : /\ Magnitude(structure, x) <= r
                                /\ x # <<0, 0, 0>>}}

\* A faulty variant of the definition that follows it:
\* a negative radius counts as its magnitude.
get_points_in_sphereAbs(structure, r) ==
    {[hkl |-> hkl, g_hkl |-> Magnitude(structure, hkl)] :
        hkl \in {x \in HklBox : Magnitude(structure, x) <= Abs(r)}}

\* recip_latt.get_points_in_sphere([[0,0,0]], [0,0,0], r): the lattice
\* points within distance r of the origin, each with its distance.
get_points_in_sphere(structure, r) ==
    {[hkl |-> hkl, g_hkl |-> Magnitude(structure, hkl)] :
        hkl \in {x \in HklBox : Magnitude(structure, x) <= r}}

-----------------------------------------------------------------------------
(* Flattening of the structure, lines 181-205 *)

RECURSIVE FlattenSpecies(_, _, _)
FlattenSpecies(fc, spo, dwf) ==
    IF spo = <<>> THEN <<>>
    ELSE <<[symbol |-> Head(spo)[1],
            fcoords |-> fc,
            occu |-> Head(spo)[2],
            dwfactor |-> IF Head(spo)[1] \in DOMAIN dwf
                         THEN dwf[Head(spo)[1]] ELSE 0]>>
         \o FlattenSpecies(fc, Tail(spo), dwf)

RECURSIVE FlattenSites(_, _)
FlattenSites(sites, dwf) ==
    IF sites = <<>> THEN <<>>
    ELSE FlattenSpecies(Head(sites).frac_coords,
                        Head(sites).species_and_occu, dwf)
         \o FlattenSites(Tail(sites), dwf)

\* One record per (site, species) pair, in iteration order.
Flatten(structure, dwf) == FlattenSites(structure.sites, dwf)

\* The symbols of the flattened pairs that ATOMIC_SCATTERING_PARAMS lacks,
\* in iteration order.
UnknownSymbols(flat) ==
    SelectSeq([i \in DOMAIN flat |-> flat[i].symbol],
              LAMBDA s : s \notin DOMAIN ATOMIC_SCATTERING_PARAMS)

\* A faulty variant of the definition that follows it:
\* the message names the first species of the structure.
ScatteringErrorFirstSpecies(flat) ==
    [kind |-> "error", error |-> "no scattering coefficients",
     symbol |-> flat[1].symbol]

\* lines 190-195: the KeyError of the first missing symbol becomes
\* ValueError("... no scattering coefficients for <symbol>.")
ScatteringError(flat) ==
    [kind |-> "error", error |-> "no scattering coefficients",
     symbol |-> Head(UnknownSymbols(flat))]

-----------------------------------------------------------------------------
(* Intensity of one reflection, lines 215-243 *)

\* line 232: sum of the Gaussians a_i * exp(-b_i * s2)
AtomicScatteringFactor(symbol, s2) ==
    LET c == ATOMIC_SCATTERING_PARAMS[symbol]
    IN  SumSeq([i \in DOMAIN c |-> c[i][1] * ExpNeg(c[i][2] * s2)])

\* line 229 and the phase factor of line 239: g.r in halves, and
\* exp(2j * pi * n / 2) = (-1)^n
PhaseFactor(fcoords, hkl) ==
    IF (hkl[1] * fcoords[1] + hkl[2] * fcoords[2] + hkl[3] * fcoords[3]) % 2
       = 0
    THEN 1 ELSE -1

\* lines 239-240: f_hkl, in units of 1/20000 (hundredths of the factor
\* and of the Debye-Waller correction, halves of the occupancy)
StructureFactor(flat, hkl, s2) ==
    SumSeq([i \in DOMAIN flat |->
              AtomicScatteringFactor(flat[i].symbol, s2)
              * flat[i].occu
              * PhaseFactor(flat[i].fcoords, hkl)
              * ExpNeg(flat[i].dwfactor * s2)])

\* line 243: i_hkl = |f_hkl|^2, the amplitude first brought to tenths
i_hkl(flat, hkl, g_hkl) ==
    LET s2 == (g_hkl * g_hkl) \div 4
        f  == Abs(StructureFactor(flat, hkl, s2)) \div 2000
    IN  f * f

-----------------------------------------------------------------------------
(* The merge loop of calculate_profile_data, lines 209-258 *)

\* A faulty variant of the definition that follows it:
\* ties broken by ascending h, k, l.
KeyLessAscending(p, q) ==
    \/ p.g_hkl < q.g_hkl
    \/ /\ p.g_hkl = q.g_hkl
       /\ \/ p.hkl[1] < q.hkl[1]
          \/ /\ p.hkl[1] = q.hkl[1]
             /\ \/ p.hkl[2] < q.hkl[2]
                \/ /\ p.hkl[2] = q.hkl[2]
                   /\ p.hkl[3] < q.hkl[3]

\* line 210: the sort key (i[1], -i[0][0], -i[0][1], -i[0][2])
KeyLess(p, q) ==
    \/ p.g_hkl < q.g_hkl
    \/ /\ p.g_hkl = q.g_hkl
       /\ \/ p.hkl[1] > q.hkl[1]
          \/ /\ p.hkl[1] = q.hkl[1]
             /\ \/ p.hkl[2] > q.hkl[2]
                \/ /\ p.hkl[2] = q.hkl[2]
                   /\ p.hkl[3] > q.hkl[3]

RECURSIVE SetToSeq(_)
SetToSeq(S) == IF S = {} THEN <<>>
               ELSE LET x == CHOOSE x \in S : TRUE
                    IN  <<x>> \o SetToSeq(S \ {x})

SortedPoints(points) == SortSeq(SetToSeq(points), KeyLess)

\* A faulty variant of the definition that follows it:
\* the third Miller-Bravais index is h + k.
StoredHklPlus(structure, hkl) ==
    IF is_hexagonal(structure)
    THEN <<hkl[1], hkl[2], hkl[1] + hkl[2], hkl[3]>>
    ELSE hkl

\* lines 247-249: Miller-Bravais indices for hexagonal lattices
StoredHkl(structure, hkl) ==
    IF is_hexagonal(structure)
    THEN <<hkl[1], hkl[2], -hkl[1] - hkl[2], hkl[3]>>
    ELSE hkl

\* A faulty variant of the definition that follows it:
\* a match on exact equality, without the tolerance.
WithinToleranceExact(g, g_hkl, magnitude_tolerance) == g = g_hkl

\* A faulty variant of the definition that follows it:
\* a recorded magnitude equal to g_hkl does not match.
WithinToleranceUnequal(g, g_hkl, magnitude_tolerance) ==
    0 < Abs(g - g_hkl) /\ Abs(g - g_hkl) < magnitude_tolerance

\* lines 251-252: np.abs(np.subtract(gs, g_hkl)) < magnitude_tolerance
WithinTolerance(g, g_hkl, magnitude_tolerance) ==
    Abs(g - g_hkl) < magnitude_tolerance

\* ind[0]: the positions of gs within tolerance of g_hkl, ascending
MatchingIndices(gseq, g_hkl, magnitude_tolerance) ==
    {i \in DOMAIN gseq : WithinTolerance(gseq[i], g_hkl, magnitude_tolerance)}

Min(S) == CHOOSE m \in S : \A x \in S : m <= x

\* A faulty variant of the definition that follows it:
\* the intensity of a matching bucket assigned instead of accumulated.
MergedPeaksAssign(pk, gseq, g_hkl, i, hkl, magnitude_tolerance) ==
    LET ind == {n \in DOMAIN gseq :
                  Abs(gseq[n] - g_hkl) < magnitude_tolerance}
    IN  IF ind # {}
        THEN LET k == gseq[CHOOSE n \in ind : \A x \in ind : n <= x]
             IN  [pk EXCEPT ![k] = [intensity |-> i,
                                    hkls |-> Append(@.hkls, hkl),
                                    d_hkl |-> @.d_hkl]]
        ELSE (g_hkl :> [intensity |-> i, hkls |-> <<hkl>>,
                        d_hkl |-> 1000 \div g_hkl]) @@ pk

\* lines 253-258: the buckets after one non-origin point
MergedPeaks(pk, gseq, g_hkl, i, hkl, magnitude_tolerance) ==
    LET ind == MatchingIndices(gseq, g_hkl, magnitude_tolerance)
    IN  IF ind # {}
        THEN LET k == gseq[Min(ind)]
             IN  [pk EXCEPT ![k] = [intensity |-> @.intensity + i,
                                    hkls |-> Append(@.hkls, hkl),
                                    d_hkl |-> @.d_hkl]]
        ELSE (g_hkl :> [intensity |-> i, hkls |-> <<hkl>>,
                        d_hkl |-> 1000 \div g_hkl]) @@ pk

\* lines 253-258: the recorded magnitudes after one non-origin point
MergedGs(gseq, g_hkl, magnitude_tolerance) ==
    IF MatchingIndices(gseq, g_hkl, magnitude_tolerance) # {}
    THEN gseq ELSE Append(gseq, g_hkl)

\* A faulty variant of the definition that follows it:
\* the origin gets a bucket like every other point.
ProcessPointNoSkip(st, point, flat, structure, magnitude_tolerance) ==
    IF point.g_hkl = 0
    THEN [peaks |-> (0 :> [intensity |-> i_hkl(flat, point.hkl, 0),
                           hkls |-> <<StoredHkl(structure, point.hkl)>>,
                           d_hkl |-> 0]) @@ st.peaks,
          gs |-> Append(st.gs, 0)]
    ELSE [peaks |-> MergedPeaks(st.peaks, st.gs, point.g_hkl,
                                i_hkl(flat, point.hkl, point.g_hkl),
                                StoredHkl(structure, point.hkl),
                                magnitude_tolerance),
          gs |-> MergedGs(st.gs, point.g_hkl, magnitude_tolerance)]

\* lines 209-258, one iteration: the origin (g_hkl = 0) is skipped
ProcessPoint(st, point, flat, structure, magnitude_tolerance) ==
    IF point.g_hkl = 0 THEN st
    ELSE [peaks |-> MergedPeaks(st.peaks, st.gs, point.g_hkl,
                                i_hkl(flat, point.hkl, point.g_hkl),
                                StoredHkl(structure, point.hkl),
                                magnitude_tolerance),
          gs |-> MergedGs(st.gs, point.g_hkl, magnitude_tolerance)]

NoPeaks == <<>>

\* The loop of lines 209-258 over the sorted points.  The buckets only
\* grow; the comparison has TLC evaluate the buckets of each iteration
\* before the next one starts.
RECURSIVE ProcessAll(_, _, _, _, _)
ProcessAll(st, points, flat, structure, magnitude_tolerance) ==
    IF points = <<>> THEN st
    ELSE LET nxt == ProcessPoint(st, Head(points), flat, structure,
                                 magnitude_tolerance)
         IN  IF Len(nxt.gs) >= Len(st.gs)
             THEN ProcessAll(nxt, Tail(points), flat, structure,
                             magnitude_tolerance)
             ELSE nxt

-----------------------------------------------------------------------------
(* Family reduction: pyxem.utils.sim_utils.get_unique_families *)

AbsSorted(hkl) == SortSeq([i \in DOMAIN hkl |-> Abs(hkl[i])],
                          LAMBDA a, b : a < b)

\* two index tuples are permutations of each other up to signs
is_perm(hkl1, hkl2) == AbsSorted(hkl1) = AbsSorted(hkl2)

RECURSIVE LexLess(_, _)
LexLess(a, b) ==
    IF a = <<>> \/ b = <<>> THEN a = <<>> /\ b # <<>>
    ELSE \/ Head(a) < Head(b)
         \/ Head(a) = Head(b) /\ LexLess(Tail(a), Tail(b))

\* the family dictionary: the largest tuple of each class of
\* equivalent tuples -> the number of tuples of the class
get_unique_families(hkls) ==
    LET members == Range(hkls)
        reps == {r \in members :
                   \A x \in members : is_perm(x, r) => ~LexLess(r, x)}
    IN  [r \in reps |->
           Cardinality({i \in DOMAIN hkls : is_perm(hkls[i], r)})]

-----------------------------------------------------------------------------
(* Rescaling and filtering, lines 260-277 *)

\* the value of a float division by zero of 0 by 0
NaN == -1

\* A faulty variant of the definition that follows it:
\* the factor 100 forgotten.
RescaledFraction(v, m) == IF m = 0 THEN NaN ELSE (v * 1000) \div m

\* v / m * 100, in thousandths
Rescaled(v, m) == IF m = 0 THEN NaN ELSE ((v * 1000) \div m) * 100

\* A faulty variant of the definition that follows it:
\* the filter compared with >=.
ExceedsInclusive(scaled, minimum_intensity) ==
    scaled # NaN /\ scaled >= minimum_intensity

\* A faulty variant of the definition that follows it:
\* the comparison of the filter inverted.
ExceedsInverted(scaled, minimum_intensity) ==
    scaled # NaN /\ scaled < minimum_intensity

\* line 269: ... > minimum_intensity (false when the left side is nan)
Exceeds(scaled, minimum_intensity) ==
    scaled # NaN /\ scaled > minimum_intensity

\* builtin max() of an empty sequence, lines 261 and 275
MaxOfEmpty == [kind |-> "error", error |-> "max() arg is an empty sequence",
               symbol |-> ""]

\* A faulty variant of the definition that follows it:
\* the survivors rescaled by the intensity of the first of them, y[0].
FinishByFirst(pk, minimum_intensity) ==
    IF DOMAIN pk = {} THEN MaxOfEmpty
    ELSE
    LET keys == SortSeq(SetToSeq(DOMAIN pk), LAMBDA a, b : a < b)
        max_intensity ==
            SeqMax([i \in DOMAIN keys |-> pk[keys[i]].intensity])
        x == SelectSeq(keys,
                LAMBDA k : Exceeds(Rescaled(pk[k].intensity, max_intensity),
                                   minimum_intensity))
        y == [i \in DOMAIN x |-> pk[x[i]].intensity]
        hkls == [i \in DOMAIN x |-> get_unique_families(pk[x[i]].hkls)]
    IN  IF y = <<>> THEN MaxOfEmpty
        ELSE [kind |-> "ProfileSimulation",
              x |-> x,
              y |-> [i \in DOMAIN y |-> Rescaled(y[i], y[1])],
              hkls |-> hkls]

\* lines 260-277
Finish(pk, minimum_intensity) ==
    IF DOMAIN pk = {} THEN MaxOfEmpty
    ELSE
    LET keys == SortSeq(SetToSeq(DOMAIN pk), LAMBDA a, b : a < b)
        max_intensity ==
            SeqMax([i \in DOMAIN keys |-> pk[keys[i]].intensity])
        x == SelectSeq(keys,
                LAMBDA k : Exceeds(Rescaled(pk[k].intensity, max_intensity),
                                   minimum_intensity))
        y == [i \in DOMAIN x |-> pk[x[i]].intensity]
        hkls == [i \in DOMAIN x |-> get_unique_families(pk[x[i]].hkls)]
    IN  IF y = <<>> THEN MaxOfEmpty
        ELSE [kind |-> "ProfileSimulation",
              x |-> x,
              y |-> [i \in DOMAIN y |-> Rescaled(y[i], SeqMax(y))],
              hkls |-> hkls]

\* calculate_profile_data as a function of the generator's
\* debye_waller_factors and of its arguments
calculate_profile_data(dwf, structure, reciprocal_radius, magnitude_tolerance, minimum_intensity) ==
    LET flat == Flatten(structure, dwf)
    IN  IF UnknownSymbols(flat) # <<>> THEN ScatteringError(flat)
        ELSE Finish(ProcessAll([peaks |-> NoPeaks, gs |-> <<>>],
                        SortedPoints(get_points_in_sphere(structure,
                                                          reciprocal_radius)),
                        flat, structure, magnitude_tolerance).peaks,
                    minimum_intensity)

-----------------------------------------------------------------------------
(* calculate_ed_data, lines 91-137 *)

\* recip_latt.get_cartesian_coords(recip_pts), line 104: cubic
\* a* = (10, 0, 0), b* = (0, 10, 0), c* = (0, 0, 10); hexagonal
\* a* = (10, 0, 0), b* = (5, 9, 0), c* = (0, 0, 14)
get_cartesian_coords(structure, hkl) ==
    IF is_hexagonal(structure)
    THEN <<10 * hkl[1] + 5 * hkl[2], 9 * hkl[2], 14 * hkl[3]>>
    ELSE <<10 * hkl[1], 10 * hkl[2], 10 * hkl[3]>>

\* line 108: radius = 1 / wavelength (wavelength in units of 1/1200)
EwaldRadius(w) == 1200 \div w

\* line 109
TransverseRadius(c) == Isqrt(c[1] * c[1] + c[2] * c[2])

\* lines 110-111: arcsin(r / radius) is nan for r > radius
SphereDefined(c, w) == TransverseRadius(c) <= EwaldRadius(w)

\* lines 110-111: radius * (1 - cos(arcsin(r / radius)))
z_sphere(c, w) ==
    EwaldRadius(w)
    - Isqrt(EwaldRadius(w) * EwaldRadius(w)
            - TransverseRadius(c) * TransverseRadius(c))

\* line 112: the excitation error of a point with a defined z_sphere
proximity(c, w) == Abs(z_sphere(c, w) - c[3])

\* A faulty variant of the definition that follows it:
\* the excitation error compared with half of max_excitation_error.
intersectionHalved(c, w, max_err) ==
    SphereDefined(c, w) /\ 2 * proximity(c, w) < max_err

\* line 113: proximity < max_excitation_error (false for nan)
intersection(c, w, max_err) ==
    SphereDefined(c, w) /\ proximity(c, w) < max_err

\* pyxem.utils.sim_utils.get_kinematical_intensities for one reflection:
\* |f_hkl|^2 attenuated linearly with the excitation error
get_kinematical_intensity(flat, hkl, g_hkl, prox, max_err) ==
    (i_hkl(flat, hkl, g_hkl) * (max_err - prox)) \div max_err

\* line 129: the noise floor 1e-20, which is 0 at the model's resolution
IntensityFloor == 0

\* A faulty variant of the definition that follows it:
\* the intensity compared with >=.
peak_maskInclusive(intensity) == intensity >= IntensityFloor

\* line 129
peak_mask(intensity) == intensity > IntensityFloor

\* the order in which get_points_in_sphere returns the points
EnumeratedPoints(structure, r) == SetToSeq(get_points_in_sphere(structure, r))

\* the intensity calculate_ed_data computes for an enumerated point that
\* intersects the Ewald sphere
EdIntensity(w, max_err, flat, structure, point) ==
    get_kinematical_intensity(
        flat, point.hkl, point.g_hkl,
        proximity(get_cartesian_coords(structure, point.hkl), w), max_err)

\* A faulty variant of the definition that follows it:
\* without with_direct_beam the origin is taken out of the reflections.
calculate_ed_dataWithoutBeam(w, max_err, dwf, structure, reciprocal_radius, with_direct_beam) ==
    LET recip_pts == EnumeratedPoints(structure, reciprocal_radius)
        flat == Flatten(structure, dwf)
        excited == SelectSeq(recip_pts,
            LAMBDA p : /\ intersection(get_cartesian_coords(structure, p.hkl),
                                       w, max_err)
                       /\ (with_direct_beam \/ p.hkl # <<0, 0, 0>>))
        kept == SelectSeq(excited,
            LAMBDA p : peak_mask(EdIntensity(w, max_err, flat, structure, p)))
    IN  IF UnknownSymbols(flat) # <<>> THEN ScatteringError(flat)
        ELSE [kind |-> "DiffractionSimulation",
              coordinates |->
                  [i \in DOMAIN kept |->
                      get_cartesian_coords(structure, kept[i].hkl)],
              indices |-> [i \in DOMAIN kept |-> kept[i].hkl],
              intensities |->
                  [i \in DOMAIN kept |->
                      EdIntensity(w, max_err, flat, structure, kept[i])],
              with_direct_beam |-> with_direct_beam]

calculate_ed_data(w, max_err, dwf, structure, reciprocal_radius, with_direct_beam) ==
    LET recip_pts == EnumeratedPoints(structure, reciprocal_radius)
        flat == Flatten(structure, dwf)
        excited == SelectSeq(recip_pts,
            LAMBDA p : intersection(get_cartesian_coords(structure, p.hkl),
                                    w, max_err))
        kept == SelectSeq(excited,
            LAMBDA p : peak_mask(EdIntensity(w, max_err, flat, structure, p)))
    IN  IF UnknownSymbols(flat) # <<>> THEN ScatteringError(flat)
        ELSE [kind |-> "DiffractionSimulation",
              coordinates |->
                  [i \in DOMAIN kept |->
                      get_cartesian_coords(structure, kept[i].hkl)],
              indices |-> [i \in DOMAIN kept |-> kept[i].hkl],
              intensities |->
                  [i \in DOMAIN kept |->
                      EdIntensity(w, max_err, flat, structure, kept[i])],
              with_direct_beam |-> with_direct_beam]

-----------------------------------------------------------------------------
(* The state machine *)

NoArgs == [op |-> "none"]
NoResult == [kind |-> "none"]

\* no signal has been loaded
NoData == <<>>

\* find_beam_offset_cross_correlation is not running
NoFrame == [pc |-> "none"]

NoSignal ==
    /\ data = NoData
    /\ before = NoData
    /\ sargs = NoArgs
    /\ sresult = NoResult
    /\ frame = NoFrame

\* DiffractionGenerator.__init__, lines 61-67
Init ==
    /\ wavelength \in Wavelengths
    /\ max_excitation_error \in ExcitationErrors
    /\ debye_waller_factors \in DebyeWallerChoices
    /\ threads = {1}
    /\ pc = [p \in Procs |-> "idle"]
    /\ args = [p \in Procs |-> NoArgs]
    /\ pts = [p \in Procs |-> <<>>]
    /\ gs = [p \in Procs |-> <<>>]
    /\ peaks = [p \in Procs |-> NoPeaks]
    /\ result = [p \in Procs |-> NoResult]
    /\ previous = [p \in Procs |-> NoResult]
    /\ NoSignal

\* calculate_ed_data called by p with the arguments a, lines 69-137
EdBody(p, a) ==
    /\ args' = [args EXCEPT ![p] = a]
    /\ result' = [result EXCEPT ![p] =
                    calculate_ed_data(wavelength, max_excitation_error,
                                      debye_waller_factors, a.structure,
                                      a.reciprocal_radius,
                                      a.with_direct_beam)]
    /\ pc' = [pc EXCEPT ![p] = "returned"]
    /\ pts' = [pts EXCEPT ![p] = <<>>]
    /\ gs' = [gs EXCEPT ![p] = <<>>]
    /\ peaks' = [peaks EXCEPT ![p] = NoPeaks]

\* A faulty variant of the definition that follows it:
\* peaks and gs are not emptied at the start of a call.
ProfileBodyStale(p, a) ==
    LET flat == Flatten(a.structure, debye_waller_factors)
    IN  /\ args' = [args EXCEPT ![p] = a]
        /\ IF UnknownSymbols(flat) # <<>>
           THEN /\ result' = [result EXCEPT ![p] =
                                [kind |-> "error",
                                 error |-> "no scattering coefficients",
                                 symbol |-> Head(UnknownSymbols(flat))]]
                /\ pts' = [pts EXCEPT ![p] = <<>>]
                /\ pc' = [pc EXCEPT ![p] = "returned"]
           ELSE /\ result' = [result EXCEPT ![p] = [kind |-> "none"]]
                /\ pts' = [pts EXCEPT ![p] =
                      SortedPoints(get_points_in_sphere(
                          a.structure, a.reciprocal_radius))]
                /\ pc' = [pc EXCEPT ![p] = "loop"]
        /\ UNCHANGED <<gs, peaks>>

\* A faulty variant of the definition that follows it:
\* the empty profile is detected before the scattering table is read.
ProfileBodyEmptyFirst(p, a) ==
    LET flat == Flatten(a.structure, debye_waller_factors)
        points == get_points_in_sphere(a.structure, a.reciprocal_radius)
    IN  /\ args' = [args EXCEPT ![p] = a]
        /\ IF \A pt \in points : pt.g_hkl = 0
           THEN /\ result' = [result EXCEPT ![p] = MaxOfEmpty]
                /\ pts' = [pts EXCEPT ![p] = <<>>]
                /\ pc' = [pc EXCEPT ![p] = "returned"]
           ELSE IF UnknownSymbols(flat) # <<>>
           THEN /\ result' = [result EXCEPT ![p] = ScatteringError(flat)]
                /\ pts' = [pts EXCEPT ![p] = <<>>]
                /\ pc' = [pc EXCEPT ![p] = "returned"]
           ELSE /\ result' = [result EXCEPT ![p] = NoResult]
                /\ pts' = [pts EXCEPT ![p] = SortedPoints(points)]
                /\ pc' = [pc EXCEPT ![p] = "loop"]
        /\ gs' = [gs EXCEPT ![p] = <<>>]
        /\ peaks' = [peaks EXCEPT ![p] = NoPeaks]

\* calculate_profile_data called by p with the arguments a, up to the
\* loop: lines 166-207
ProfileBody(p, a) ==
    LET flat == Flatten(a.structure, debye_waller_factors)
    IN  /\ args' = [args EXCEPT ![p] = a]
        /\ IF UnknownSymbols(flat) # <<>>
           THEN /\ result' = [result EXCEPT ![p] = ScatteringError(flat)]
                /\ pts' = [pts EXCEPT ![p] = <<>>]
                /\ pc' = [pc EXCEPT ![p] = "returned"]
           ELSE /\ result' = [result EXCEPT ![p] = NoResult]
                /\ pts' = [pts EXCEPT ![p] =
                      SortedPoints(get_points_in_sphere(
                          a.structure, a.reciprocal_radius))]
                /\ pc' = [pc EXCEPT ![p] = "loop"]
        /\ gs' = [gs EXCEPT ![p] = <<>>]
        /\ peaks' = [peaks EXCEPT ![p] = NoPeaks]

\* the arguments the callers draw from: all of them when one thread uses
\* the generator, the concurrent ones when several threads share it
CallStructures ==
    IF Cardinality(threads) = 1 THEN Structures ELSE ConcurrentStructures

CallRadii == IF Cardinality(threads) = 1 THEN Radii ELSE ConcurrentRadii

CallTolerances ==
    IF Cardinality(threads) = 1 THEN Tolerances ELSE ConcurrentTolerances

CallMinIntensities ==
    IF Cardinality(threads) = 1 THEN MinIntensities
    ELSE ConcurrentMinIntensities

\* a call of calculate_ed_data
EdCall(p) ==
    /\ pc[p] = "idle"
    /\ \E structure \in CallStructures, r \in CallRadii, wdb \in BOOLEAN :
         EdBody(p, [op |-> "calculate_ed_data", structure |-> structure,
                    reciprocal_radius |-> r, with_direct_beam |-> wdb])
    /\ UNCHANGED <<signal, generator, threads, previous>>

\* a call of calculate_profile_data
ProfileStart(p) ==
    /\ pc[p] = "idle"
    /\ \E structure \in CallStructures, r \in CallRadii,
          tol \in CallTolerances, min_int \in CallMinIntensities :
         ProfileBody(p, [op |-> "calculate_profile_data",
                         structure |-> structure,
                         reciprocal_radius |-> r,
                         magnitude_tolerance |-> tol,
                         minimum_intensity |-> min_int])
    /\ UNCHANGED <<signal, generator, threads, previous>>

\* A faulty variant of the definition that follows it:
\* peaks and gs are one buffer kept on the generator, shared by all calls.
ProfileStepShared(p) ==
    /\ pc[p] = "loop"
    /\ pts[p] # <<>>
    /\ LET st == ProcessPoint([peaks |-> peaks[p], gs |-> gs[p]],
                              Head(pts[p]),
                              Flatten(args[p].structure,
                                      debye_waller_factors),
                              args[p].structure,
                              args[p].magnitude_tolerance)
       IN  /\ peaks' = [q \in Procs |-> st.peaks]
           /\ gs' = [q \in Procs |-> st.gs]
    /\ pts' = [pts EXCEPT ![p] = Tail(pts[p])]
    /\ UNCHANGED <<signal, generator, threads, pc, args, result, previous>>

\* A faulty variant of the definition that follows it:
\* a point without a Bragg angle, wavelength * g_hkl / 2 > 1, is passed
\* over (line 218, which the code has as a comment).
ProfileStepBragg(p) ==
    /\ pc[p] = "loop"
    /\ pts[p] # <<>>
    /\ LET st == IF wavelength * Head(pts[p]).g_hkl > 1000
                 THEN [peaks |-> peaks[p], gs |-> gs[p]]
                 ELSE ProcessPoint([peaks |-> peaks[p], gs |-> gs[p]],
                                   Head(pts[p]),
                                   Flatten(args[p].structure,
                                           debye_waller_factors),
                                   args[p].structure,
                                   args[p].magnitude_tolerance)
       IN  /\ peaks' = [peaks EXCEPT ![p] = st.peaks]
           /\ gs' = [gs EXCEPT ![p] = st.gs]
    /\ pts' = [pts EXCEPT ![p] = Tail(pts[p])]
    /\ UNCHANGED <<signal, generator, threads, pc, args, result, previous>>

\* one iteration of the loop of lines 209-258
ProfileStep(p) ==
    /\ pc[p] = "loop"
    /\ pts[p] # <<>>
    /\ LET st == ProcessPoint([peaks |-> peaks[p], gs |-> gs[p]],
                              Head(pts[p]),
                              Flatten(args[p].structure,
                                      debye_waller_factors),
                              args[p].structure,
                              args[p].magnitude_tolerance)
       IN  /\ peaks' = [peaks EXCEPT ![p] = st.peaks]
           /\ gs' = [gs EXCEPT ![p] = st.gs]
    /\ pts' = [pts EXCEPT ![p] = Tail(pts[p])]
    /\ UNCHANGED <<signal, generator, threads, pc, args, result, previous>>

\* after the loop, lines 260-277
ProfileFinish(p) ==
    /\ pc[p] = "loop"
    /\ pts[p] = <<>>
    /\ result' = [result EXCEPT ![p] =
                    Finish(peaks[p], args[p].minimum_intensity)]
    /\ pc' = [pc EXCEPT ![p] = "returned"]
    /\ UNCHANGED <<signal, generator, threads, args, pts, gs, peaks, previous>>

\* the caller keeps what the call returned or raised and makes the same
\* call again, with identical arguments, on the same generator
RepeatCall(p) ==
    /\ pc[p] = "returned"
    /\ previous[p] = NoResult
    /\ previous' = [previous EXCEPT ![p] = result[p]]
    /\ IF args[p].op = "calculate_ed_data"
       THEN EdBody(p, args[p])
       ELSE ProfileBody(p, args[p])
    /\ UNCHANGED <<signal, generator, threads>>

\* the call has returned or raised (lines 134-137, 193-195, 261, 275-277):
\* its arguments and local variables are gone with its frame
Return(p) ==
    /\ pc[p] = "returned"
    /\ pc' = [pc EXCEPT ![p] = "idle"]
    /\ args' = [args EXCEPT ![p] = NoArgs]
    /\ pts' = [pts EXCEPT ![p] = <<>>]
    /\ gs' = [gs EXCEPT ![p] = <<>>]
    /\ peaks' = [peaks EXCEPT ![p] = NoPeaks]
    /\ result' = [result EXCEPT ![p] = NoResult]
    /\ previous' = [previous EXCEPT ![p] = NoResult]
    /\ UNCHANGED <<signal, generator, threads>>

Next ==
    \/ \E p \in threads : EdCall(p)
    \/ \E p \in threads : ProfileStart(p)
    \/ \E p \in threads : ProfileStep(p)
    \/ \E p \in threads : ProfileFinish(p)
    \/ \E p \in threads : RepeatCall(p)
    \/ \E p \in threads : Return(p)

Spec == Init /\ [][Next]_vars

\* Two threads share one generator: each runs its calls in its own frame,
\* and the steps of the two interleave in every order.
InitConcurrent ==
    /\ wavelength \in Wavelengths
    /\ max_excitation_error \in ExcitationErrors
    /\ debye_waller_factors \in DebyeWallerChoices
    /\ threads = Procs
    /\ pc = [p \in Procs |-> "idle"]
    /\ args = [p \in Procs |-> NoArgs]
    /\ pts = [p \in Procs |-> <<>>]
    /\ gs = [p \in Procs |-> <<>>]
    /\ peaks = [p \in Procs |-> NoPeaks]
    /\ result = [p \in Procs |-> NoResult]
    /\ previous = [p \in Procs |-> NoResult]
    /\ NoSignal

SpecConcurrent == InitConcurrent /\ [][Next]_vars

-----------------------------------------------------------------------------
(* Properties *)

\* p's call has returned a simulation (it did not raise)
EdReturned(p) ==
    /\ pc[p] = "returned"
    /\ args[p].op = "calculate_ed_data"
    /\ result[p].kind = "DiffractionSimulation"

ProfileReturned(p) ==
    /\ pc[p] = "returned"
    /\ args[p].op = "calculate_profile_data"
    /\ result[p].kind = "ProfileSimulation"

\* the enumerated point with Miller indices hkl
PointOf(structure, hkl) ==
    [hkl |-> hkl, g_hkl |-> Magnitude(structure, hkl)]

Excited(structure, point) ==
    intersection(get_cartesian_coords(structure, point.hkl),
                 wavelength, max_excitation_error)

IntensityOf(structure, point) ==
    EdIntensity(wavelength, max_excitation_error,
                Flatten(structure, debye_waller_factors), structure, point)

\* C1: the DiffractionSimulation returned by calculate_ed_data has
\* coordinates, indices and intensities of one common length, entry i of
\* each describes the same reciprocal point (the coordinates and the
\* intensity are those of the point with the indices), and every intensity
\* is strictly above the noise floor.
C1_EdArraysAligned ==
    \A p \in Procs : EdReturned(p) =>
        LET r == result[p]
            st == args[p].structure
        IN  /\ Len(r.coordinates) = Len(r.indices)
            /\ Len(r.intensities) = Len(r.indices)
            /\ \A i \in DOMAIN r.indices :
                 /\ r.coordinates[i] = get_cartesian_coords(st, r.indices[i])
                 /\ r.intensities[i]
                      = IntensityOf(st, PointOf(st, r.indices[i]))
                 /\ r.intensities[i] > IntensityFloor

\* C1 witness: a returned simulation with several reflections, from a call
\* in which an excited point with an intensity at the floor was dropped.
C1_Witness ==
    \E p \in Procs :
        /\ EdReturned(p)
        /\ Len(result[p].intensities) >= 2
        /\ \E pt \in get_points_in_sphere(args[p].structure,
                                          args[p].reciprocal_radius) :
             /\ Excited(args[p].structure, pt)
             /\ IntensityOf(args[p].structure, pt) = IntensityFloor

\* C2: an enumerated point is in the result of calculate_ed_data iff its
\* excitation error is strictly below max_excitation_error and its
\* intensity exceeds the floor; nothing else is in the result.
C2_EdSelection ==
    \A p \in Procs : EdReturned(p) =>
        LET st == args[p].structure
            enumerated == get_points_in_sphere(st,
                                               args[p].reciprocal_radius)
            returned == Range(result[p].indices)
        IN  /\ \A pt \in enumerated :
                 pt.hkl \in returned <=>
                    LET c == get_cartesian_coords(st, pt.hkl)
                    IN  /\ SphereDefined(c, wavelength)
                        /\ proximity(c, wavelength) < max_excitation_error
                        /\ IntensityOf(st, pt) > IntensityFloor
            /\ returned \subseteq {pt.hkl : pt \in enumerated}

\* C2 witness: a returned simulation that holds a reflection of the
\* largest enumerated magnitude, from a call in which a point with a
\* positive intensity had an excitation error equal to
\* max_excitation_error and was left out.
C2_Witness ==
    \E p \in Procs :
        /\ EdReturned(p)
        /\ LET st == args[p].structure
               enumerated == get_points_in_sphere(st,
                                                  args[p].reciprocal_radius)
           IN  /\ \E pt \in enumerated :
                    LET c == get_cartesian_coords(st, pt.hkl)
                    IN  /\ SphereDefined(c, wavelength)
                        /\ proximity(c, wavelength) = max_excitation_error
                        /\ i_hkl(Flatten(st, debye_waller_factors),
                                 pt.hkl, pt.g_hkl) > 0
                        /\ pt.hkl \notin Range(result[p].indices)
               /\ \E pt \in enumerated :
                    /\ pt.g_hkl > 0
                    /\ \A q \in enumerated : q.g_hkl <= pt.g_hkl
                    /\ pt.hkl \in Range(result[p].indices)

\* C3: the magnitudes returned by calculate_profile_data called with a
\* positive magnitude_tolerance are strictly ascending and neighbours
\* differ by at least magnitude_tolerance.
C3_ProfileMagnitudesSeparated ==
    \A p \in Procs :
        ProfileReturned(p) /\ args[p].magnitude_tolerance > 0 =>
            \A i \in 1..(Len(result[p].x) - 1) :
                /\ result[p].x[i] < result[p].x[i + 1]
                /\ result[p].x[i + 1] - result[p].x[i]
                     >= args[p].magnitude_tolerance

\* C3 witness: a returned profile in which two neighbouring magnitudes
\* differ by exactly magnitude_tolerance and a bucket has merged
\* reflections of different magnitudes.
C3_Witness ==
    \E p \in Procs :
        /\ ProfileReturned(p)
        /\ args[p].magnitude_tolerance > 1
        /\ \E i \in 1..(Len(result[p].x) - 1) :
             result[p].x[i + 1] - result[p].x[i]
                = args[p].magnitude_tolerance
        /\ \E k \in DOMAIN peaks[p] :
             \E h \in Range(peaks[p][k].hkls) :
                Magnitude(args[p].structure, <<h[1], h[2], h[Len(h)]>>) # k

\* C4: the largest intensity of a returned profile is 100 and no intensity
\* is above 100.
C4_ProfileMaxIs100 ==
    \A p \in Procs : ProfileReturned(p) =>
        /\ \E i \in DOMAIN result[p].y : result[p].y[i] = 100000
        /\ \A i \in DOMAIN result[p].y : result[p].y[i] <= 100000

\* C4 witness: a returned profile with records below 100, from a call with
\* a positive minimum_intensity.
C4_Witness ==
    \E p \in Procs :
        /\ ProfileReturned(p)
        /\ args[p].minimum_intensity > 0
        /\ \E i \in DOMAIN result[p].y : result[p].y[i] < 100000

\* the largest accumulated intensity of the buckets of p's call
MaxBucketIntensity(p) ==
    CHOOSE m \in {peaks[p][k].intensity : k \in DOMAIN peaks[p]} :
        \A k \in DOMAIN peaks[p] : peaks[p][k].intensity <= m

\* C5: every returned record has a rescaled intensity strictly above
\* minimum_intensity, and a bucket is returned iff its intensity rescaled
\* by the largest bucket intensity exceeds minimum_intensity.
C5_ProfileFilter ==
    \A p \in Procs : ProfileReturned(p) =>
        /\ \A i \in DOMAIN result[p].y :
             result[p].y[i] > args[p].minimum_intensity
        /\ \A k \in DOMAIN peaks[p] :
             (\E i \in DOMAIN result[p].x :
                 /\ result[p].x[i] = k
                 /\ result[p].y[i]
                      = ((peaks[p][k].intensity * 1000)
                            \div MaxBucketIntensity(p)) * 100)
             <=> ((peaks[p][k].intensity * 1000)
                     \div MaxBucketIntensity(p)) * 100
                 > args[p].minimum_intensity

\* C5 witness: a returned profile from a call that dropped a bucket whose
\* rescaled intensity equals minimum_intensity and one below it.
C5_Witness ==
    \E p \in Procs :
        /\ ProfileReturned(p)
        /\ \E k \in DOMAIN peaks[p] :
             /\ ((peaks[p][k].intensity * 1000)
                    \div MaxBucketIntensity(p)) * 100
                = args[p].minimum_intensity
             /\ k \notin Range(result[p].x)
        /\ \E k \in DOMAIN peaks[p] :
             /\ ((peaks[p][k].intensity * 1000)
                    \div MaxBucketIntensity(p)) * 100
                < args[p].minimum_intensity
             /\ k \notin Range(result[p].x)

\* the records (magnitude, intensity, family) of a profile
Records(r) == {<<r.x[i], r.y[i], r.hkls[i]>> : i \in DOMAIN r.x}

\* C6: the profile returned with minimum_intensity = 0 holds every record
\* returned, for the same structure, radius and tolerance, with a higher
\* minimum_intensity.
C6_ZeroThresholdSuperset ==
    \A p \in Procs :
        ProfileReturned(p) /\ args[p].minimum_intensity > 0 =>
            LET r0 == calculate_profile_data(
                          debye_waller_factors, args[p].structure,
                          args[p].reciprocal_radius,
                          args[p].magnitude_tolerance, 0)
            IN  /\ r0.kind = "ProfileSimulation"
                /\ Records(result[p]) \subseteq Records(r0)

\* C6 witness: a profile returned with a positive minimum_intensity that
\* has fewer records than the profile of minimum_intensity = 0.
C6_Witness ==
    \E p \in Procs :
        /\ ProfileReturned(p)
        /\ args[p].minimum_intensity > 0
        /\ Len(result[p].x) >= 1
        /\ Len(result[p].x)
             < Len(calculate_profile_data(
                       debye_waller_factors, args[p].structure,
                       args[p].reciprocal_radius,
                       args[p].magnitude_tolerance, 0).x)

\* the three Miller indices of a stored index tuple
Miller(h) == <<h[1], h[2], h[Len(h)]>>

\* the magnitudes of the reflections accumulated in bucket k of p's call
MemberMagnitudes(p, k) ==
    {Magnitude(args[p].structure, Miller(h)) : h \in Range(peaks[p][k].hkls)}

SingleAtomAtOrigin(structure) ==
    /\ Len(structure.sites) = 1
    /\ structure.sites[1].frac_coords = <<0, 0, 0>>
    /\ Len(structure.sites[1].species_and_occu) = 1

\* a tolerance below the spacing of any two different magnitudes
SmallTolerance == Min(Tolerances \ {0})

RECURSIVE SumOver(_, _)
SumOver(S, f) == IF S = {} THEN 0
                 ELSE LET x == CHOOSE x \in S : TRUE
                      IN  f[x].intensity + SumOver(S \ {x}, f)

\* C7 as claimed: for a single atom at the origin, two reflections that a
\* small-tolerance call returns in separate records and whose magnitudes
\* are closer than magnitude_tolerance are returned as one record, whose
\* intensity is the sum of their two intensities in the small-tolerance
\* result.
C7_MergedIntensityIsSumOfReturned ==
    \A p \in Procs :
        ProfileReturned(p) /\ SingleAtomAtOrigin(args[p].structure) =>
            LET small == calculate_profile_data(
                             debye_waller_factors, args[p].structure,
                             args[p].reciprocal_radius, SmallTolerance,
                             args[p].minimum_intensity)
                r == result[p]
            IN  small.kind = "ProfileSimulation" =>
                \A i, j \in DOMAIN small.x :
                    (i < j /\ small.x[j] - small.x[i]
                                < args[p].magnitude_tolerance) =>
                        \E n \in DOMAIN r.x :
                            /\ small.x[i] \in MemberMagnitudes(p, r.x[n])
                            /\ small.x[j] \in MemberMagnitudes(p, r.x[n])
                            /\ r.y[n] = small.y[i] + small.y[j]

\* C7 amended: for a single atom at the origin and a positive
\* magnitude_tolerance, the reflections accumulated in the bucket of
\* magnitude k are those with a magnitude in [k, k + magnitude_tolerance),
\* and the bucket's intensity before rescaling is the sum of the
\* intensities that the small-tolerance call accumulates, before rescaling,
\* in the separate buckets of those magnitudes.
C7_MergedBucketIsSumBeforeRescaling ==
    \A p \in Procs :
        (/\ pc[p] = "returned"
         /\ args[p].op = "calculate_profile_data"
         /\ SingleAtomAtOrigin(args[p].structure)
         /\ args[p].magnitude_tolerance > 0) =>
            LET st == args[p].structure
                small == ProcessAll(
                    [peaks |-> NoPeaks, gs |-> <<>>],
                    SortedPoints(get_points_in_sphere(
                        st, args[p].reciprocal_radius)),
                    Flatten(st, debye_waller_factors), st,
                    SmallTolerance).peaks
                merged(k) == {m \in DOMAIN small :
                                 k <= m /\ m < k + args[p].magnitude_tolerance}
            IN  /\ \A m \in DOMAIN small : \E k \in DOMAIN peaks[p] :
                       m \in merged(k)
                /\ \A k \in DOMAIN peaks[p] :
                       /\ MemberMagnitudes(p, k) = merged(k)
                       /\ peaks[p][k].intensity = SumOver(merged(k), small)

\* C7 witness: a returned profile of a single atom at the origin in which
\* a bucket merges two magnitudes and two other magnitudes closer than
\* magnitude_tolerance lie in different buckets.
C7_Witness ==
    \E p \in Procs :
        /\ ProfileReturned(p)
        /\ SingleAtomAtOrigin(args[p].structure)
        /\ \E k \in DOMAIN peaks[p] : Cardinality(MemberMagnitudes(p, k)) >= 2
        /\ \E k1, k2 \in DOMAIN peaks[p] :
             /\ k1 # k2
             /\ \E m1 \in MemberMagnitudes(p, k1),
                   m2 \in MemberMagnitudes(p, k2) :
                  Abs(m1 - m2) < args[p].magnitude_tolerance

StructureSymbols(structure) ==
    UNION {{structure.sites[i].species_and_occu[j][1] :
               j \in DOMAIN structure.sites[i].species_and_occu} :
           i \in DOMAIN structure.sites}

\* the first symbol, in the order of the sites and of their species, that
\* the scattering table lacks
FirstMissingSymbol(structure) ==
    LET i == Min({n \in DOMAIN structure.sites :
                    \E j \in DOMAIN structure.sites[n].species_and_occu :
                       structure.sites[n].species_and_occu[j][1]
                          \notin DOMAIN ATOMIC_SCATTERING_PARAMS})
        spo == structure.sites[i].species_and_occu
    IN  spo[Min({j \in DOMAIN spo :
                    spo[j][1] \notin DOMAIN ATOMIC_SCATTERING_PARAMS})][1]

\* C9: a call of calculate_ed_data or calculate_profile_data on a
\* structure with a species that the scattering table lacks raises the
\* error that names a missing symbol of the structure (the first one in
\* the order of the sites), and returns no simulation.
C9_UnknownElementRaises ==
    \A p \in Procs :
        (/\ pc[p] = "returned"
         /\ StructureSymbols(args[p].structure)
               \ DOMAIN ATOMIC_SCATTERING_PARAMS # {}) =>
            /\ result[p].kind = "error"
            /\ result[p].error = "no scattering coefficients"
            /\ result[p].symbol \in StructureSymbols(args[p].structure)
                                      \ DOMAIN ATOMIC_SCATTERING_PARAMS
            /\ result[p].symbol = FirstMissingSymbol(args[p].structure)

\* C9 witness: calculate_profile_data has raised for a structure whose
\* missing symbol comes after species that the table holds.
C9_Witness ==
    \E p \in Procs :
        /\ pc[p] = "returned"
        /\ args[p].op = "calculate_profile_data"
        /\ args[p].structure.sites[1].species_and_occu[1][1]
              \in DOMAIN ATOMIC_SCATTERING_PARAMS
        /\ result[p].kind = "error"
        /\ result[p].symbol \notin DOMAIN ATOMIC_SCATTERING_PARAMS
        /\ result[p].symbol \in StructureSymbols(args[p].structure)

\* C10 as claimed: when no reflection qualifies (no point but the origin
\* is enumerated), calculate_profile_data fails with EmptyProfileError.
C10_EmptyProfileError ==
    \A p \in Procs :
        (/\ pc[p] = "returned"
         /\ args[p].op = "calculate_profile_data"
         /\ StructureSymbols(args[p].structure)
               \subseteq DOMAIN ATOMIC_SCATTERING_PARAMS
         /\ \A pt \in get_points_in_sphere(args[p].structure,
                                          args[p].reciprocal_radius) :
               pt.g_hkl = 0) =>
            /\ result[p].kind = "error"
            /\ result[p].error = "EmptyProfileError"

-----------------------------------------------------------------------------
(* Concurrent calls *)

\* what p's call returns or raises when it runs alone on the generator
AloneResult(p) ==
    IF args[p].op = "calculate_ed_data"
    THEN calculate_ed_data(wavelength, max_excitation_error,
                           debye_waller_factors, args[p].structure,
                           args[p].reciprocal_radius,
                           args[p].with_direct_beam)
    ELSE calculate_profile_data(debye_waller_factors, args[p].structure,
                                args[p].reciprocal_radius,
                                args[p].magnitude_tolerance,
                                args[p].minimum_intensity)

\* a step leaves the generator's fields and the structure of every call
\* in progress as they were
NoSharedWrite ==
    /\ generator' = generator
    /\ \A p \in Procs :
         (pc[p] # "idle" /\ pc'[p] # "idle") => args'[p] = args[p]

\* C11: under every interleaving of the calls of two threads on one
\* generator, with the same or distinct structures, each call returns
\* exactly what it returns when run alone, and no step writes the
\* generator's fields or the structure of a call in progress.
C11_ConcurrentCallsIsolated ==
    /\ [](\A p \in Procs : pc[p] = "returned" => result[p] = AloneResult(p))
    /\ [][NoSharedWrite]_vars

\* C11 witness: a profile call has returned its records while the call of
\* the other thread, on the same structure, is in the middle of its loop
\* with buckets of its own.
C11_Witness ==
    \E p \in Procs, q \in Procs :
        /\ p # q
        /\ ProfileReturned(p)
        /\ pc[q] = "loop"
        /\ args[q].structure = args[p].structure
        /\ Len(gs[q]) >= 1
        /\ pts[q] # <<>>

-----------------------------------------------------------------------------
(* The origin *)

\* the structure holds only species of the scattering parameter table
ValidStructure(structure) ==
    UnknownSymbols(Flatten(structure, debye_waller_factors)) = <<>>

\* p's call of calculate_ed_data has returned or raised
EdDone(p) == pc[p] = "returned" /\ args[p].op = "calculate_ed_data"

\* C12: for a structure of known species, a positive reciprocal_radius and
\* a positive max_excitation_error, calculate_ed_data called with
\* with_direct_beam = True returns a simulation whose reflections include
\* the direct beam (0,0,0).
C12_DirectBeamIncluded ==
    \A p \in Procs :
        (/\ EdDone(p)
         /\ ValidStructure(args[p].structure)
         /\ args[p].reciprocal_radius > 0
         /\ max_excitation_error > 0
         /\ args[p].with_direct_beam)
        => /\ result[p].kind = "DiffractionSimulation"
           /\ result[p].with_direct_beam
           /\ <<0, 0, 0>> \in Range(result[p].indices)

\* C12 witness: such a call has returned the direct beam together with
\* other reflections.
C12_Witness ==
    \E p \in Procs :
        /\ EdReturned(p)
        /\ args[p].reciprocal_radius > 0
        /\ args[p].with_direct_beam
        /\ <<0, 0, 0>> \in Range(result[p].indices)
        /\ Len(result[p].indices) >= 3

C13_WitnessNegative ==
    \E p \in Procs :
        /\ EdReturned(p)
        /\ args[p].reciprocal_radius < 0
        /\ result[p].indices = <<>>

IsOrigin(h) == \A i \in DOMAIN h : h[i] = 0

\* p's call of calculate_profile_data is in its loop or has returned its
\* records: its buckets exist
ProfileRunning(p) == pc[p] = "loop" \/ ProfileReturned(p)

\* the points p's loop has gone through so far
ProcessedPoints(p) ==
    LET all == SortedPoints(get_points_in_sphere(args[p].structure,
                                                 args[p].reciprocal_radius))
    IN  SubSeq(all, 1, Len(all) - Len(pts[p]))

\* no bucket and no returned record of p has magnitude 0 or holds the
\* origin
NoOriginStored(p) ==
    /\ \A k \in DOMAIN peaks[p] :
         /\ k # 0
         /\ \A i \in DOMAIN peaks[p][k].hkls :
              ~IsOrigin(peaks[p][k].hkls[i])
    /\ ProfileReturned(p) =>
         \A i \in DOMAIN result[p].x :
             /\ result[p].x[i] # 0
             /\ \A h \in DOMAIN result[p].hkls[i] : ~IsOrigin(h)

\* the iteration of p's loop that takes the origin leaves every bucket
\* and every recorded magnitude as it was
OriginStepKeepsBuckets(p) ==
    (/\ pc[p] = "loop"
     /\ pts[p] # <<>>
     /\ Head(pts[p]).hkl = <<0, 0, 0>>
     /\ pts'[p] = Tail(pts[p]))
    => peaks'[p] = peaks[p] /\ gs'[p] = gs[p]

\* C14: no bucket of calculate_profile_data and no record it returns has
\* magnitude 0 or holds the index (0,0,0) ((0,0,0,0) for a hexagonal
\* lattice), and the iteration that takes the origin changes no bucket:
\* the origin adds to no intensity.
C14_OriginSkipped ==
    /\ [](\A p \in Procs : ProfileRunning(p) => NoOriginStored(p))
    /\ [][\A p \in Procs : OriginStepKeepsBuckets(p)]_vars

\* C14 witness: the loop has gone past the origin, which was enumerated,
\* and the call has returned records.
C14_Witness ==
    \E p \in Procs :
        /\ ProfileReturned(p)
        /\ \E i \in DOMAIN ProcessedPoints(p) :
             ProcessedPoints(p)[i].hkl = <<0, 0, 0>>
        /\ Len(result[p].x) >= 2

-----------------------------------------------------------------------------
(* Miller-Bravais relabelling *)

\* the stored tuple h has the form the lattice asks for
WellLabelled(structure, h) ==
    IF is_hexagonal(structure)
    THEN Len(h) = 4 /\ h[3] = -h[1] - h[2]
    ELSE Len(h) = 3

\* bucket k of p's call holds the points it would hold under their three
\* Miller indices: each member's magnitude matches the bucket by the
\* tolerance, and the bucket's intensity and spacing are those of the
\* members' Miller indices
BucketOfMillerIndices(p, k) ==
    LET st == args[p].structure
        tol == args[p].magnitude_tolerance
        flat == Flatten(st, debye_waller_factors)
        hs == peaks[p][k].hkls
    IN  /\ \A i \in DOMAIN hs :
             LET g == Magnitude(st, Miller(hs[i]))
             IN  IF tol > 0 THEN k <= g /\ g < k + tol ELSE g = k
        /\ peaks[p][k].intensity =
             SumSeq([i \in DOMAIN hs |->
                       i_hkl(flat, Miller(hs[i]),
                             Magnitude(st, Miller(hs[i])))])
        /\ peaks[p][k].d_hkl = 1000 \div k

\* C15: every hkl stored by calculate_profile_data is the 4-tuple
\* (h, k, -h-k, l) of the point's indices for a hexagonal lattice and the
\* 3-tuple (h, k, l) for any other lattice, and the bucket a point joins,
\* its magnitude and its intensity are those of the three indices
\* (h, k, l): the relabelling changes none of them.
C15_HexagonalRelabelling ==
    \A p \in Procs : ProfileRunning(p) =>
        \A k \in DOMAIN peaks[p] :
            /\ \A i \in DOMAIN peaks[p][k].hkls :
                 WellLabelled(args[p].structure, peaks[p][k].hkls[i])
            /\ BucketOfMillerIndices(p, k)

\* C15 witness: a call on a hexagonal lattice has returned, and one of its
\* buckets holds several 4-tuples, one of them with a third index other
\* than 0.
C15_Witness ==
    \E p \in Procs :
        /\ ProfileReturned(p)
        /\ is_hexagonal(args[p].structure)
        /\ \E k \in DOMAIN peaks[p] :
             /\ Len(peaks[p][k].hkls) >= 2
             /\ \E i \in DOMAIN peaks[p][k].hkls :
                  /\ Len(peaks[p][k].hkls[i]) = 4
                  /\ peaks[p][k].hkls[i][3] # 0

\* C16: for the simple cubic lattice with one atom at the origin,
\* calculate_profile_data(reciprocal_radius = 0.5, magnitude_tolerance =
\* 1e-5, minimum_intensity = 1e-3) returns at least one record, and the
\* six reflections +-(1,0,0), +-(0,1,0), +-(0,0,1) are in one record whose
\* family has 6 members.
C16_CubicFamilyOfSix ==
    \A p \in Procs :
        (/\ pc[p] = "returned"
         /\ args[p].op = "calculate_profile_data"
         /\ args[p].structure = SimpleCubic
         /\ args[p].reciprocal_radius = 20
         /\ args[p].magnitude_tolerance = 1
         /\ args[p].minimum_intensity = 1)
        => /\ result[p].kind = "ProfileSimulation"
           /\ Len(result[p].x) >= 1
           /\ \E i \in DOMAIN result[p].x :
                /\ result[p].x[i] = 10
                /\ Range(peaks[p][10].hkls) =
                     {<<1, 0, 0>>, <<-1, 0, 0>>, <<0, 1, 0>>, <<0, -1, 0>>,
                      <<0, 0, 1>>, <<0, 0, -1>>}
                /\ Len(peaks[p][10].hkls) = 6
                /\ result[p].hkls[i] = (<<1, 0, 0>> :> 6)

\* C16 witness: that call has returned.
C16_Witness ==
    \E p \in Procs :
        /\ ProfileReturned(p)
        /\ args[p].structure = SimpleCubic
        /\ args[p].reciprocal_radius = 20
        /\ args[p].magnitude_tolerance = 1
        /\ args[p].minimum_intensity = 1
        /\ 10 \in Range(result[p].x)

-----------------------------------------------------------------------------
(* The merge step of calculate_profile_data, lines 250-258 *)

\* p's loop takes one point that is not the origin
MergeStep(p) ==
    /\ pc[p] = "loop"
    /\ pts[p] # <<>>
    /\ Head(pts[p]).g_hkl # 0
    /\ pts'[p] = Tail(pts[p])

\* the bucket that holds one reflection only
SingleBucket(intensity, hkl, g_hkl) ==
    [intensity |-> intensity, hkls |-> <<hkl>>, d_hkl |-> 1000 \div g_hkl]

\* the magnitudes of p's buckets that differ from g_hkl by strictly less
\* than p's magnitude_tolerance
BucketsWithin(p, g_hkl) ==
    {k \in DOMAIN peaks[p] : Abs(k - g_hkl) < args[p].magnitude_tolerance}

\* the step adds the point to the bucket k and to no other
AddsTo(p, k, intensity, hkl) ==
    /\ DOMAIN peaks'[p] = DOMAIN peaks[p]
    /\ gs'[p] = gs[p]
    /\ peaks'[p][k].intensity = peaks[p][k].intensity + intensity
    /\ peaks'[p][k].hkls = Append(peaks[p][k].hkls, hkl)
    /\ \A j \in DOMAIN peaks[p] \ {k} : peaks'[p][j] = peaks[p][j]

\* the step creates the bucket g_hkl for the point alone, beside the
\* buckets there were
Creates(p, g_hkl, intensity, hkl) ==
    /\ g_hkl \notin DOMAIN peaks[p]
    /\ DOMAIN peaks'[p] = DOMAIN peaks[p] \cup {g_hkl}
    /\ peaks'[p][g_hkl] = SingleBucket(intensity, hkl, g_hkl)
    /\ gs'[p] = Append(gs[p], g_hkl)
    /\ \A j \in DOMAIN peaks[p] : peaks'[p][j] = peaks[p][j]

\* one non-origin point either joins a bucket within tolerance or gets a
\* new bucket, and every other bucket stays as it was
MergeStepAddsOrCreates(p) ==
    MergeStep(p) =>
        LET point == Head(pts[p])
            intensity ==
                i_hkl(Flatten(args[p].structure, debye_waller_factors),
                      point.hkl, point.g_hkl)
            hkl == StoredHkl(args[p].structure, point.hkl)
            near == BucketsWithin(p, point.g_hkl)
        IN  IF near # {}
            THEN \E k \in near : AddsTo(p, k, intensity, hkl)
            ELSE Creates(p, point.g_hkl, intensity, hkl)

\* C22: processing one non-origin point either adds its intensity and its
\* hkl to an existing bucket whose magnitude differs from the point's by
\* strictly less than magnitude_tolerance, creating no bucket, or, when
\* there is no such bucket (a difference equal to the tolerance included),
\* creates one new bucket keyed by the point's magnitude with its
\* intensity and its single hkl; every other bucket is left unchanged.
C22_MergeStep == [][\A p \in Procs : MergeStepAddsOrCreates(p)]_vars

\* What holds of the merge step: both cases for every positive
\* magnitude_tolerance.
MergeStepPositiveTolerance ==
    [][\A p \in Procs :
          (/\ args[p].op = "calculate_profile_data"
           /\ args[p].magnitude_tolerance > 0)
          => MergeStepAddsOrCreates(p)]_vars

-----------------------------------------------------------------------------
(* Rescaling and filtering in either order, lines 260-275 *)

\* 100 v / m in thousandths, as a float division does it
Percent(v, m) == ((v * 1000) \div m) * 100

\* the buckets of p that line 269 keeps: those whose intensity, as a
\* percentage of the largest intensity of all buckets, exceeds
\* minimum_intensity
Survivors(p) ==
    {k \in DOMAIN peaks[p] :
        /\ MaxBucketIntensity(p) # 0
        /\ Percent(peaks[p][k].intensity, MaxBucketIntensity(p))
             > args[p].minimum_intensity}

\* the largest accumulated intensity of the buckets in S
MaxIntensityOf(p, S) ==
    CHOOSE m \in {peaks[p][k].intensity : k \in S} :
        \A k \in S : peaks[p][k].intensity <= m

\* C23: the intensity returned for a record is 100 times the accumulated
\* intensity of its bucket divided by the largest accumulated intensity of
\* all buckets, the dropped ones included; the largest intensity of the
\* surviving buckets is that of all buckets, so rescaling the survivors by
\* their own maximum gives what rescaling all buckets and then filtering
\* gives.
C23_RescaleAndFilterCommute ==
    \A p \in Procs : ProfileReturned(p) =>
        /\ Range(result[p].x) = Survivors(p)
        /\ MaxIntensityOf(p, Survivors(p)) = MaxBucketIntensity(p)
        /\ \A i \in DOMAIN result[p].x :
             /\ result[p].y[i]
                  = Percent(peaks[p][result[p].x[i]].intensity,
                            MaxBucketIntensity(p))
             /\ result[p].y[i]
                  = Percent(peaks[p][result[p].x[i]].intensity,
                            MaxIntensityOf(p, Survivors(p)))

\* C23 witness: a returned profile of two records of different intensity
\* from a call whose filter dropped a bucket.
C23_Witness ==
    \E p \in Procs :
        /\ ProfileReturned(p)
        /\ DOMAIN peaks[p] \ Range(result[p].x) # {}
        /\ \E i, j \in DOMAIN result[p].y : result[p].y[i] < result[p].y[j]

-----------------------------------------------------------------------------
(* The processing order of calculate_profile_data, lines 209-210 *)

\* the point a is processed before the point b: ascending magnitude, ties
\* by descending h, then descending k, then descending l
ProcessedBefore(a, b) ==
    \/ a.g_hkl < b.g_hkl
    \/ /\ a.g_hkl = b.g_hkl
       /\ \/ a.hkl[1] > b.hkl[1]
          \/ a.hkl[1] = b.hkl[1] /\ a.hkl[2] > b.hkl[2]
          \/ a.hkl[1] = b.hkl[1] /\ a.hkl[2] = b.hkl[2]
                                 /\ a.hkl[3] > b.hkl[3]

\* the points of the sequence s follow one another in processing order
\* (ProcessedBefore is transitive: neighbours are enough)
InProcessingOrder(s) ==
    \A i \in 1..(Len(s) - 1) : ProcessedBefore(s[i], s[i + 1])

\* the loop of p starts on the enumerated points, each once, and each
\* iteration takes the first of the points left
TakesPointsInTurn(p) ==
    /\ (pc[p] # "loop" /\ pc'[p] = "loop") =>
          /\ Range(pts'[p]) = get_points_in_sphere(args'[p].structure,
                                    args'[p].reciprocal_radius)
          /\ Len(pts'[p]) = Cardinality(Range(pts'[p]))
    /\ (pc[p] = "loop" /\ pc'[p] = "loop" /\ pts'[p] # pts[p]) =>
          pts'[p] = Tail(pts[p])
    /\ (pc[p] = "loop" /\ pc'[p] # "loop") => pts[p] = <<>>

\* the points p's loop has yet to take are in processing order
TotalOrder(p) == InProcessingOrder(pts[p])

\* the members of bucket k of p's call, as points, in the order of its hkl
\* list
Members(p, k) ==
    [i \in DOMAIN peaks[p][k].hkls |->
        PointOf(args[p].structure, Miller(peaks[p][k].hkls[i]))]

\* every bucket of p is keyed by the smallest magnitude of its members and
\* lists them in processing order
BucketsOrdered(p) ==
    \A k \in DOMAIN peaks[p] :
        /\ k \in MemberMagnitudes(p, k)
        /\ \A g \in MemberMagnitudes(p, k) : k <= g
        /\ InProcessingOrder(Members(p, k))

\* every member of every bucket of p has a magnitude in
\* [bucket magnitude, bucket magnitude + magnitude_tolerance)
MembersWithinTolerance(p) ==
    \A k \in DOMAIN peaks[p] :
        \A g \in MemberMagnitudes(p, k) :
            k <= g /\ g < k + args[p].magnitude_tolerance

\* C24 as claimed: the points are processed in one total order (ascending
\* magnitude, then descending h, k, l); each bucket's magnitude is the
\* smallest magnitude of its members, every member's magnitude lies in
\* [bucket magnitude, bucket magnitude + magnitude_tolerance), and the hkl
\* list of a bucket is in processing order.
C24_ProcessingOrder ==
    /\ [](\A p \in Procs : ProfileRunning(p) =>
             /\ TotalOrder(p)
             /\ BucketsOrdered(p)
             /\ MembersWithinTolerance(p))
    /\ [][\A p \in Procs : TakesPointsInTurn(p)]_vars

\* C24 as amended: the same, the interval holding for a positive
\* magnitude_tolerance; with a tolerance of 0 every member has exactly the
\* magnitude of its bucket.
C24_ProcessingOrderPositiveTolerance ==
    /\ [](\A p \in Procs : ProfileRunning(p) =>
             /\ TotalOrder(p)
             /\ BucketsOrdered(p)
             /\ IF args[p].magnitude_tolerance > 0
                THEN MembersWithinTolerance(p)
                ELSE \A k \in DOMAIN peaks[p] :
                         MemberMagnitudes(p, k) = {k})
    /\ [][\A p \in Procs : TakesPointsInTurn(p)]_vars

\* C24 witness: a call with a positive tolerance has returned from a loop
\* that merged reflections of two different magnitudes into one bucket,
\* after reflections of equal magnitude.
C24_Witness ==
    \E p \in Procs :
        /\ ProfileReturned(p)
        /\ args[p].magnitude_tolerance > 0
        /\ \E k \in DOMAIN peaks[p] :
             /\ Cardinality(MemberMagnitudes(p, k)) >= 2
             /\ \E i, j \in DOMAIN peaks[p][k].hkls :
                  /\ i < j
                  /\ Members(p, k)[i].g_hkl = Members(p, k)[j].g_hkl

-----------------------------------------------------------------------------
(* The with_direct_beam argument of calculate_ed_data, lines 134-137 *)

\* what the generator returns for p's structure and reciprocal_radius
\* when called with with_direct_beam = flag
EdResultWith(p, flag) ==
    calculate_ed_data(wavelength, max_excitation_error,
                      debye_waller_factors, args[p].structure,
                      args[p].reciprocal_radius, flag)

\* C25: with_direct_beam only sets the flag of the simulation returned:
\* the coordinates, indices and intensities that calculate_ed_data returns
\* are those it returns, on the same generator and for the same structure
\* and reciprocal_radius, with the other value of with_direct_beam.
C25_DirectBeamFlagOnly ==
    \A p \in Procs : EdReturned(p) =>
        LET other == EdResultWith(p, ~args[p].with_direct_beam)
        IN  /\ result[p].with_direct_beam = args[p].with_direct_beam
            /\ other.kind = "DiffractionSimulation"
            /\ other.with_direct_beam = ~args[p].with_direct_beam
            /\ result[p].coordinates = other.coordinates
            /\ result[p].indices = other.indices
            /\ result[p].intensities = other.intensities

\* C25 witness: a call with with_direct_beam = False has returned a
\* simulation that holds the direct beam and other reflections.
C25_Witness ==
    \E p \in Procs :
        /\ EdReturned(p)
        /\ ~args[p].with_direct_beam
        /\ <<0, 0, 0>> \in Range(result[p].indices)
        /\ Len(result[p].indices) >= 2

-----------------------------------------------------------------------------
(* The recorded magnitudes gs of the merge loop, lines 206-258 *)

\* p's loop is about to take a point that is not the origin
AtPoint(p) ==
    /\ pc[p] = "loop"
    /\ pts[p] # <<>>
    /\ Head(pts[p]).g_hkl # 0

\* the positions of the recorded magnitudes within tolerance of the point
\* p's loop is about to take
Candidates(p) ==
    {n \in DOMAIN gs[p] :
        Abs(gs[p][n] - Head(pts[p]).g_hkl) < args[p].magnitude_tolerance}

\* the recorded magnitudes of p ascend strictly in the order of their
\* creation
StrictlyAscending(p) ==
    \A i, j \in DOMAIN gs[p] : i < j => gs[p][i] < gs[p][j]

\* any two recorded magnitudes of p differ by at least magnitude_tolerance
ApartByTolerance(p) ==
    \A i, j \in DOMAIN gs[p] :
        i < j => gs[p][j] - gs[p][i] >= args[p].magnitude_tolerance

\* the only bucket the next point can match is the last one created
OnlyLastMatches(p) == AtPoint(p) => Candidates(p) \subseteq {Len(gs[p])}

\* C26: at every step of the merge loop the recorded magnitudes
\* are in strictly ascending order of creation and any two differ by at
\* least magnitude_tolerance, so the point being processed is within
\* tolerance of at most one bucket, the most recently created one.
C26_RecordedMagnitudes ==
    \A p \in Procs : pc[p] = "loop" =>
        /\ StrictlyAscending(p)
        /\ ApartByTolerance(p)
        /\ OnlyLastMatches(p)

\* What holds of the recorded magnitudes: the three statements for a
\* positive magnitude_tolerance, the recorded magnitudes being the keys of
\* the buckets; with a tolerance of 0 the recorded magnitudes ascend
\* without being distinct and no point matches any bucket.
RecordedMagnitudesPositiveTolerance ==
    \A p \in Procs : pc[p] = "loop" =>
        IF args[p].magnitude_tolerance > 0
        THEN /\ StrictlyAscending(p)
             /\ ApartByTolerance(p)
             /\ OnlyLastMatches(p)
             /\ Range(gs[p]) = DOMAIN peaks[p]
        ELSE /\ \A i, j \in DOMAIN gs[p] : i < j => gs[p][i] <= gs[p][j]
             /\ AtPoint(p) => Candidates(p) = {}

\* with a positive tolerance and several buckets recorded, the loop is
\* about to take a point within tolerance of the last bucket whose
\* magnitude differs from that bucket's
MatchesLastBucket ==
    \E p \in Procs :
        /\ AtPoint(p)
        /\ args[p].magnitude_tolerance > 0
        /\ Len(gs[p]) >= 2
        /\ Candidates(p) = {Len(gs[p])}
        /\ Head(pts[p]).g_hkl # gs[p][Len(gs[p])]

-----------------------------------------------------------------------------
(* Conservation of the reflections by the merge loop, lines 209-258 *)

\* p's loop has gone through all the points: the buckets are those that
\* lines 260-275 rescale and filter
LoopDone(p) ==
    /\ args[p].op = "calculate_profile_data"
    /\ \/ pc[p] = "loop" /\ pts[p] = <<>>
       \/ ProfileReturned(p)

\* the enumerated points of p's call other than the origin
NonOriginPoints(p) ==
    SelectSeq(SortedPoints(get_points_in_sphere(args[p].structure,
                                                args[p].reciprocal_radius)),
              LAMBDA point : point.g_hkl # 0)

\* the number of hkl entries of all the buckets of p
HklEntries(p) ==
    Cardinality(UNION {{<<k, i>> : i \in DOMAIN peaks[p][k].hkls} :
                          k \in DOMAIN peaks[p]})

\* the total of the intensities of the points in the sequence s
TotalIntensity(p, s) ==
    SumSeq([i \in DOMAIN s |->
              i_hkl(Flatten(args[p].structure, debye_waller_factors),
                    s[i].hkl, s[i].g_hkl)])

\* every non-origin point of p's call is in exactly one bucket: as many
\* hkl entries as points, and the same total intensity
Conserved(p) ==
    /\ HklEntries(p) = Len(NonOriginPoints(p))
    /\ SumOver(DOMAIN peaks[p], peaks[p])
         = TotalIntensity(p, NonOriginPoints(p))

\* C27: after the merge loop and before filtering, the number of hkl
\* entries summed over all buckets equals the number of enumerated
\* non-origin points and the sum of all bucket intensities equals the sum
\* of the intensities of those points: no reflection is lost or counted
\* twice.
C27_NoReflectionLost ==
    \A p \in Procs : LoopDone(p) => Conserved(p)

\* What holds of the buckets after the loop: the reflections are conserved
\* for every positive magnitude_tolerance.
ConservedPositiveTolerance ==
    \A p \in Procs :
        (LoopDone(p) /\ args[p].magnitude_tolerance > 0) => Conserved(p)

-----------------------------------------------------------------------------
(* The unknown-element error of calculate_profile_data, lines 187-199 *)

\* p's call of calculate_profile_data is on a structure with a species
\* that the scattering table lacks
ProfileOfUnknownElement(p) ==
    /\ args[p].op = "calculate_profile_data"
    /\ StructureSymbols(args[p].structure)
          \ DOMAIN ATOMIC_SCATTERING_PARAMS # {}

\* no point but the origin is enumerated for p's call: no reflection
\* would be retained
NothingToRetain(p) ==
    \A pt \in get_points_in_sphere(args[p].structure,
                                   args[p].reciprocal_radius) :
        pt.g_hkl = 0

\* the call of p has raised the unknown-element error and has made no
\* bucket
RaisedUnknownElement(p) ==
    /\ pc[p] = "returned"
    /\ result[p].kind = "error"
    /\ result[p].error = "no scattering coefficients"
    /\ result[p].symbol = FirstMissingSymbol(args[p].structure)
    /\ result[p] # MaxOfEmpty
    /\ peaks[p] = NoPeaks
    /\ gs[p] = <<>>

\* C28: calculate_profile_data on a structure with an unknown element
\* fails with the unknown-element error for every reciprocal_radius, also
\* when no reflection would be retained, before it processes any
\* reflection: the call never enters the loop and makes no bucket.
C28_UnknownElementFirst ==
    /\ [](\A p \in Procs :
             ProfileOfUnknownElement(p) => RaisedUnknownElement(p))
    /\ [][\A p \in Procs :
             (/\ args'[p].op = "calculate_profile_data"
              /\ StructureSymbols(args'[p].structure)
                    \ DOMAIN ATOMIC_SCATTERING_PARAMS # {})
             => pc'[p] # "loop" /\ peaks'[p] = NoPeaks]_vars

\* C28 witness: the call has raised the unknown-element error for a
\* reciprocal_radius that enumerates nothing but the origin, where a
\* structure of known elements fails on the empty profile.
C28_Witness ==
    \E p \in Procs :
        /\ ProfileOfUnknownElement(p)
        /\ NothingToRetain(p)
        /\ args[p].reciprocal_radius <= 0
        /\ RaisedUnknownElement(p)

-----------------------------------------------------------------------------
(* The generator parameters that calculate_profile_data does not use *)

\* p's call of calculate_profile_data has returned or raised
ProfileDone(p) ==
    pc[p] = "returned" /\ args[p].op = "calculate_profile_data"

\* the profile as a function of debye_waller_factors and of the four
\* arguments of the call, and of nothing else
ProfileOfArguments(p) ==
    calculate_profile_data(debye_waller_factors, args[p].structure,
                           args[p].reciprocal_radius,
                           args[p].magnitude_tolerance,
                           args[p].minimum_intensity)

\* C29: what calculate_profile_data returns or raises is one function of
\* the generator's debye_waller_factors and of structure,
\* reciprocal_radius, magnitude_tolerance and minimum_intensity, on every
\* generator: generators that differ only in wavelength and
\* max_excitation_error return identical profiles.
C29_ProfileIgnoresWavelength ==
    \A p \in Procs : ProfileDone(p) => result[p] = ProfileOfArguments(p)

\* C29 witness: a generator with the longer wavelength and the larger
\* max_excitation_error has returned a profile of several records that
\* reach the largest reciprocal_radius.
C29_Witness ==
    \E p \in Procs :
        /\ ProfileReturned(p)
        /\ \A w \in Wavelengths : w <= wavelength
        /\ \A e \in ExcitationErrors : e <= max_excitation_error
        /\ Len(result[p].x) >= 2
        /\ \E i \in DOMAIN result[p].x : \A r \in Radii : r <= result[p].x[i]

-----------------------------------------------------------------------------
(* ElectronDiffraction signals: src/pyxem/signals/electron_diffraction.py  *)
(* and the pattern functions of src/pyxem/utils/expt_utils.py.             *)
(*                                                                         *)
(* A diffraction pattern is an array z[i][j], i in 0..rows-1 and j in      *)
(* 0..cols-1, of pixel values in fixed point (Unit is 1.0).  The filters   *)
(* of scikit-image, scipy and hyperspy, which are not code of pyxem, are   *)
(* kept as terms [f |-> the filter, of |-> its argument].                  *)

\* the fixed-point value of 1.0
Unit == 360

\* the pixel values of the patterns loaded: 0.0 and 2.0
PixelValues == {0, 2 * Unit}

\* the shapes (rows, columns) of the patterns loaded
Shapes == {<<3, 3>>, <<2, 3>>, <<3, 2>>}

Patterns ==
    UNION {[0..(sh[1] - 1) -> [0..(sh[2] - 1) -> PixelValues]] : sh \in Shapes}

Rows(z) == Cardinality(DOMAIN z)

Cols(z) == Cardinality(DOMAIN z[0])

Pixels(z) == (DOMAIN z) \X (DOMAIN z[0])

\* self.data.max()
DataMax(z) ==
    CHOOSE m \in {z[px[1]][px[2]] : px \in Pixels(z)} :
        \A px \in Pixels(z) : z[px[1]][px[2]] <= m

\* self.data / scale (line 569); 0.0 / 0.0 is nan
DividedBy(z, scale) ==
    [i \in DOMAIN z |-> [j \in DOMAIN z[i] |->
        IF scale = 0 THEN NaN ELSE (z[i][j] * Unit) \div scale]]

\* a filter of scikit-image, scipy or hyperspy applied to a pattern
Filtered(f, z) == [f |-> f, of |-> z]

\* what a function or method without a return value gives back
None == [kind |-> "None"]

NotImplemented == [kind |-> "error", error |-> "NotImplementedError"]

\* a new signal that holds d
NewSignalOf(d) == [kind |-> "signal", data |-> d]

\* expt_utils.subtract_reference, lines 371-384: z - bg with the negative
\* pixels set to 0
subtract_reference(z, bg) ==
    [i \in DOMAIN z |-> [j \in DOMAIN z[i] |->
        IF z[i][j] - bg < 0 THEN 0 ELSE z[i][j] - bg]]

BackgroundMethods ==
    {"h-dome", "model", "gaussian_difference", "median", "reference_pattern"}

\* a method name that remove_background and find_peaks do not know
UnknownMethod == "other"

\* the uniform reference patterns handed to 'reference_pattern'
ReferenceLevels == {0, Unit}

\* ElectronDiffraction.remove_background, lines 567-604: self.data after
\* the call and what the call returns or raises
remove_background(z, method, bg) ==
    CASE method = "h-dome" ->
           \* lines 568-573
           LET scaled == DividedBy(z, DataMax(z))
           IN  [data |-> scaled,
                returned |-> NewSignalOf(
                    Filtered("normalise",
                        Filtered("rank.mean",
                            Filtered("regional_filter", scaled))))]
      [] method = "model" ->
           \* lines 576-586
           [data |-> z,
            returned |-> NewSignalOf(
                Filtered("regional_flattener",
                    Filtered("clip",
                        Filtered("subtract get_background_model", z))))]
      [] method = "gaussian_difference" ->
           \* lines 589-590
           [data |-> z,
            returned |-> NewSignalOf(Filtered("subtract_background_dog", z))]
      [] method = "median" ->
           \* lines 593-594
           [data |-> z,
            returned |-> NewSignalOf(
                Filtered("subtract_background_median", z))]
      [] method = "reference_pattern" ->
           \* line 597: map() without inplace=False works in place and
           \* returns nothing
           [data |-> subtract_reference(z, bg), returned |-> None]
      [] OTHER ->
           \* lines 599-602
           [data |-> z, returned |-> NotImplemented]

\* the method names the documentation of find_peaks lists, lines 719-734
DocumentedPeakMethods ==
    {"max", "skimage", "minmax", "zaefferer", "stat",
     "laplacian_of_gaussians", "difference_of_gaussians", "regionprops"}

\* the keys of method_dict, lines 749-755
method_dict ==
    {"skimage", "zaefferer", "stat", "laplacian_of_gaussians",
     "difference_of_gaussians"}

\* ElectronDiffraction.find_peaks, lines 749-775
find_peaks(z, method) ==
    IF method \in method_dict
    THEN [kind |-> "DiffractionVectors",
          data |-> Filtered("peaks_as_gvectors", Filtered(method, z))]
    ELSE NotImplemented

\* no centre given to circular_mask
NoCenter == <<>>

\* expt_utils.circular_mask, lines 401-405.  shape is (l_x, l_y); radius
\* and the coordinates of center are in half pixels, so that
\* (X - x)^2 + (Y - y)^2 < radius^2 is compared after multiplying by 4.
circular_mask(shape, radius, center) ==
    LET l_x == shape[1]
        l_y == shape[2]
        c == IF center # NoCenter THEN center ELSE <<l_x, l_y>>
    IN  [X \in 0..(l_x - 1) |-> [Y \in 0..(l_y - 1) |->
            (2 * X - c[1]) * (2 * X - c[1]) + (2 * Y - c[2]) * (2 * Y - c[2])
                < radius * radius]]

\* self.axes_manager.signal_shape: (size of the x axis, size of the y
\* axis), the shape of the data array reversed
signal_shape(z) == <<Cols(z), Rows(z)>>

\* ElectronDiffraction.get_direct_beam_mask, lines 244-251
get_direct_beam_mask(z, radius) ==
    LET shape == signal_shape(z)
        center == <<shape[2] - 1, shape[1] - 1>>
    IN  circular_mask(shape, radius, center)

\* the indices start:stop of an axis of length n select (Python slicing:
\* a negative bound counts from the end, bounds are clipped to the axis)
Slice(n, start, stop) ==
    LET bound(b) == IF b < 0 THEN (IF n + b < 0 THEN 0 ELSE n + b)
                    ELSE (IF b > n THEN n ELSE b)
    IN  {k \in 0..(n - 1) : bound(start) <= k /\ k < bound(stop)}

\* np.mean of the pixels px of z: nan for no pixel and for a nan among them
Mean(z, px) ==
    IF px = {} \/ \E q \in px : z[q[1]][q[2]] = NaN THEN NaN
    ELSE SumSeq([n \in 1..Cardinality(px) |->
                    z[SetToSeq(px)[n][1]][SetToSeq(px)[n][2]]])
         \div Cardinality(px)

\* z[i-d:i+d+1, j-d:j+d+1], line 248
Neighbours(z, i, j, d) ==
    Slice(Rows(z), i - d, i + d + 1) \X Slice(Cols(z), j - d, j + d + 1)

\* lines 247-249: the loop of deadvalue = 'average', which writes into z
RECURSIVE AverageDead(_, _, _)
AverageDead(z, deadpixels, d) ==
    IF deadpixels = <<>> THEN z
    ELSE LET i == Head(deadpixels)[1]
             j == Head(deadpixels)[2]
             m == Mean(z, Neighbours(z, i, j, d))
         IN  AverageDead([z EXCEPT ![i][j] = m], Tail(deadpixels), d)

\* lines 252-253: the loop of deadvalue = 'nan'
NanDead(z, deadpixels) ==
    [i \in DOMAIN z |-> [j \in DOMAIN z[i] |->
        IF \E n \in DOMAIN deadpixels : deadpixels[n] = <<i, j>>
        THEN NaN ELSE z[i][j]]]

\* expt_utils.remove_dead, lines 246-259: the image after the call and,
\* when the call raises, the error
remove_dead(z, deadpixels, deadvalue, d) ==
    CASE deadvalue = "average" ->
           [z |-> AverageDead(z, deadpixels, d), returned |-> None]
      [] deadvalue = "nan" ->
           [z |-> NanDead(z, deadpixels), returned |-> None]
      [] OTHER -> [z |-> z, returned |-> NotImplemented]

\* the default of the parameter d of remove_dead
DefaultDistance == 1

\* the radii of get_direct_beam_mask, in half pixels
MaskRadii == {1, 2, 3}

DeadValues == {"average", "nan", UnknownMethod}

\* the lists of dead pixels: every single pixel of the pattern, and the
\* first pixel together with the last
DeadPixelLists(z) ==
    {<<px>> : px \in Pixels(z)}
    \cup {<< <<0, 0>>, <<Rows(z) - 1, Cols(z) - 1>> >>}

\* no call is in progress on the signal
SignalIdle == sargs = NoArgs

\* a call of remove_background, lines 522-604
RemoveBackground ==
    /\ SignalIdle
    /\ \E method \in BackgroundMethods \cup {UnknownMethod},
          bg \in ReferenceLevels :
         /\ method # "reference_pattern" => bg = 0
         /\ sargs' = [op |-> "remove_background", method |-> method,
                      bg |-> bg]
         /\ data' = remove_background(data, method, bg).data
         /\ sresult' = remove_background(data, method, bg).returned
    /\ before' = data
    /\ UNCHANGED <<generator, calls, frame>>

\* a call of find_peaks, lines 707-775
FindPeaks ==
    /\ SignalIdle
    /\ \E method \in DocumentedPeakMethods \cup {UnknownMethod} :
         /\ sargs' = [op |-> "find_peaks", method |-> method]
         /\ sresult' = find_peaks(data, method)
    /\ before' = data
    /\ UNCHANGED <<data, generator, calls, frame>>

\* a call of get_direct_beam_mask, lines 227-251
GetDirectBeamMask ==
    /\ SignalIdle
    /\ \E radius \in MaskRadii :
         /\ sargs' = [op |-> "get_direct_beam_mask", radius |-> radius]
         /\ sresult' = [kind |-> "mask",
                        mask |-> get_direct_beam_mask(data, radius)]
    /\ before' = data
    /\ UNCHANGED <<data, generator, calls, frame>>

\* a call of remove_deadpixels, lines 352-374, with inplace = True (the
\* default): remove_dead writes into the pattern it is given
RemoveDeadpixels ==
    /\ SignalIdle
    /\ \E deadpixels \in DeadPixelLists(data), deadvalue \in DeadValues :
         /\ sargs' = [op |-> "remove_deadpixels", deadpixels |-> deadpixels,
                      deadvalue |-> deadvalue]
         /\ data' = remove_dead(data, deadpixels, deadvalue,
                                DefaultDistance).z
         /\ sresult' = remove_dead(data, deadpixels, deadvalue,
                                   DefaultDistance).returned
    /\ before' = data
    /\ UNCHANGED <<generator, calls, frame>>

\* ElectronDiffraction.__init__, lines 38-47: the caller is done with the
\* call and loads another pattern
LoadSignal ==
    /\ ~SignalIdle
    /\ data' \in Patterns
    /\ before' = data'
    /\ sargs' = NoArgs
    /\ sresult' = NoResult
    /\ UNCHANGED <<generator, calls, frame>>

InitSignal ==
    /\ wavelength = Min(Wavelengths)
    /\ max_excitation_error = Min(ExcitationErrors)
    /\ debye_waller_factors = [s \in {} |-> 0]
    /\ threads = {}
    /\ pc = [p \in Procs |-> "idle"]
    /\ args = [p \in Procs |-> NoArgs]
    /\ pts = [p \in Procs |-> <<>>]
    /\ gs = [p \in Procs |-> <<>>]
    /\ peaks = [p \in Procs |-> NoPeaks]
    /\ result = [p \in Procs |-> NoResult]
    /\ previous = [p \in Procs |-> NoResult]
    /\ data \in Patterns
    /\ before = data
    /\ sargs = NoArgs
    /\ sresult = NoResult
    /\ frame = NoFrame

NextSignal ==
    \/ RemoveBackground
    \/ FindPeaks
    \/ GetDirectBeamMask
    \/ RemoveDeadpixels
    \/ LoadSignal

SpecSignal == InitSignal /\ [][NextSignal]_vars

-----------------------------------------------------------------------------
(* Properties of the signal methods *)

\* the call op has returned or raised on the signal
SignalCalled(op) == sargs # NoArgs /\ sargs.op = op

\* C17: for each of the methods 'h-dome', 'model', 'gaussian_difference',
\* 'median' and 'reference_pattern', remove_background returns a new
\* signal (never nothing), and the data of the signal it was called on is
\* after the call what it was before.
C17_RemoveBackgroundReturnsCopy ==
    (SignalCalled("remove_background") /\ sargs.method \in BackgroundMethods)
    => /\ sresult.kind = "signal"
       /\ data = before

\* the part of C17 that holds: 'model', 'gaussian_difference' and 'median'
\* return a new signal and leave the data alone, and an unknown method
\* raises NotImplementedError and leaves the data alone.
C17_OutOfPlaceMethods ==
    SignalCalled("remove_background") =>
        /\ sargs.method \in {"model", "gaussian_difference", "median"}
             => sresult.kind = "signal" /\ data = before
        /\ sargs.method \notin BackgroundMethods
             => sresult = NotImplemented /\ data = before

\* C18: find_peaks accepts every method name its documentation lists and
\* raises NotImplementedError exactly for the names outside that list,
\* without changing the signal.
C18_FindPeaksAcceptsDocumented ==
    SignalCalled("find_peaks") =>
        /\ sresult = NotImplemented
             <=> sargs.method \notin DocumentedPeakMethods
        /\ data = before

\* the part of C18 that holds: find_peaks raises NotImplementedError
\* exactly for the names that are not keys of method_dict.
C18_FindPeaksAcceptsKeys ==
    SignalCalled("find_peaks") =>
        /\ sresult = NotImplemented <=> sargs.method \notin method_dict
        /\ data = before

\* the mask of the pixels of an array of the given shape that lie strictly
\* within radius (in half pixels) of its centre, position (n - 1) / 2
\* along each axis of length n
CentredDisc(shape, radius) ==
    [X \in 0..(shape[1] - 1) |-> [Y \in 0..(shape[2] - 1) |->
        (2 * X - (shape[1] - 1)) * (2 * X - (shape[1] - 1))
        + (2 * Y - (shape[2] - 1)) * (2 * Y - (shape[2] - 1))
            < radius * radius]]

\* the shape of a mask
MaskShape(mk) == <<Cardinality(DOMAIN mk), Cardinality(DOMAIN mk[0])>>

\* C19: for every signal shape, square or not, the mask returned by
\* get_direct_beam_mask(radius) is True exactly at the pixels whose
\* distance from the centre of the pattern is strictly less than radius.
C19_MaskCentred ==
    SignalCalled("get_direct_beam_mask") =>
        sresult.mask = CentredDisc(MaskShape(sresult.mask), sargs.radius)

\* the part of C19 that holds: the claim for square patterns.
C19_MaskCentredSquare ==
    (SignalCalled("get_direct_beam_mask") /\ Rows(data) = Cols(data)) =>
        sresult.mask = CentredDisc(MaskShape(sresult.mask), sargs.radius)

\* the pixels within distance d of (i, j) that lie inside the image
Adjacent(z, i, j, d) ==
    {px \in Pixels(z) : Abs(px[1] - i) <= d /\ Abs(px[2] - j) <= d}

\* v is the average over the pixels adjacent to (i, j), counted with or
\* without the pixel itself
IsAdjacentAverage(z, i, j, d, v) ==
    \/ v = Mean(z, Adjacent(z, i, j, d))
    \/ v = Mean(z, Adjacent(z, i, j, d) \ {<<i, j>>})

ListedDead(px) == \E n \in DOMAIN sargs.deadpixels : sargs.deadpixels[n] = px

\* C20: remove_dead with deadvalue 'average' sets the dead pixel listed
\* first, also one on the border of the image, to the average of its
\* adjacent pixels; with 'nan' it sets exactly the listed pixels to NaN;
\* with any other deadvalue it raises NotImplementedError and leaves the
\* image unchanged; pixels that are not listed are never changed.
C20_RemoveDead ==
    SignalCalled("remove_deadpixels") =>
        LET first == sargs.deadpixels[1]
        IN  /\ sargs.deadvalue = "average" =>
                 IsAdjacentAverage(before, first[1], first[2],
                                   DefaultDistance,
                                   data[first[1]][first[2]])
            /\ sargs.deadvalue = "nan" =>
                 \A px \in Pixels(before) :
                     ListedDead(px) => data[px[1]][px[2]] = NaN
            /\ sargs.deadvalue \notin {"average", "nan"} =>
                 sresult = NotImplemented /\ data = before
            /\ \A px \in Pixels(before) :
                 ~ListedDead(px) => data[px[1]][px[2]] = before[px[1]][px[2]]

\* the part of C20 that holds: everything but the average of a dead pixel
\* in the first row or the first column, where the slice of line 248
\* starts at a negative index.
C20_RemoveDeadInside ==
    SignalCalled("remove_deadpixels") =>
        LET first == sargs.deadpixels[1]
        IN  /\ (/\ sargs.deadvalue = "average"
                /\ first[1] >= DefaultDistance
                /\ first[2] >= DefaultDistance) =>
                 data[first[1]][first[2]]
                   = Mean(before, Adjacent(before, first[1], first[2],
                                           DefaultDistance))
            /\ sargs.deadvalue = "nan" =>
                 \A px \in Pixels(before) :
                     ListedDead(px) => data[px[1]][px[2]] = NaN
            /\ sargs.deadvalue \notin {"average", "nan"} =>
                 sresult = NotImplemented /\ data = before
            /\ \A px \in Pixels(before) :
                 ~ListedDead(px) => data[px[1]][px[2]] = before[px[1]][px[2]]

-----------------------------------------------------------------------------
(* get_direct_beam_position (electron_diffraction.py, lines 461-485) and   *)
(* find_beam_offset_cross_correlation (expt_utils.py, lines 440-480).      *)
(*                                                                         *)
(* skimage's register_translation and ellipse_perimeter and numpy's        *)
(* hanning are not code of pyxem: a shift is kept as the term of the       *)
(* registration that gives it, and the error of a registration is what     *)
(* the table frame.errors, drawn when the call starts, holds for the       *)
(* radius of the reference circle.  Errors are in halves of the spacing of *)
(* single precision floats at their size.                                  *)

\* the radii radius_start and radius_finish are drawn from
OffsetRadii == 1..4

\* the errors (float64) register_translation reports
ErrorValues == {0, 4, 5, 7}

\* the patterns the signal holds: dark, or lit at one pixel
OffsetPatterns ==
    {z \in Patterns :
        Cardinality({px \in Pixels(z) : z[px[1]][px[2]] # 0}) <= 1
        /\ z[0][0] = 0 /\ z[0][1] = 0 /\ z[1][0] = 0}

\* errRecord has dtype 'single' (line 461): storing a float64 in it rounds
\* it to single precision
SinglePrecision == 2

Single(e) == (e \div SinglePrecision) * SinglePrecision

\* the upsample_factor of the registration of line 478, whose shift is
\* kept (the registration of line 472 gives the error)
FineUpsampling == 100

\* round(n / 2) of Python 3: halves go to the even neighbour
RoundHalf(n) ==
    IF n % 2 = 0 THEN n \div 2
    ELSE IF (n \div 2) % 2 = 0 THEN n \div 2 ELSE n \div 2 + 1

\* line 462
origin(z) == <<RoundHalf(Rows(z)), RoundHalf(Cols(z))>>

\* reference_circle(coords, dimX, dimY, radius), lines 408-438
reference_circle(coords, dimX, dimY, radius) ==
    [f |-> "ellipse_perimeter", coords |-> coords, dimX |-> dimX,
     dimY |-> dimY, radius |-> radius]

\* hann2d * x, lines 467-471 and 477
hann2d(x) == [f |-> "hann2d", of |-> x]

\* the reference of lines 466-470 and 476-477 for a radius
Reference(z, radius) ==
    hann2d(reference_circle(origin(z), Rows(z), Cols(z), radius))

\* the shift that register_translation(ref, im, upsample_factor) returns
RegisteredShift(ref, im, upsample_factor) ==
    [f |-> "register_translation", ref |-> ref, im |-> im,
     upsample_factor |-> upsample_factor]

\* np.arange(radius_start, radius_finish), line 460
arange(radius_start, radius_finish) ==
    [i \in 1..(radius_finish - radius_start) |-> radius_start + i - 1]

\* A faulty variant of the definition that follows it:
\* of several smallest entries the last one is taken.
argminLast(rec) ==
    CHOOSE i \in DOMAIN rec :
        /\ \A j \in DOMAIN rec : rec[i] <= rec[j]
        /\ \A j \in DOMAIN rec : rec[j] = rec[i] => j <= i

\* np.argmin(rec), line 474: the first position of the smallest entry
\* (positions from 1)
argmin(rec) ==
    CHOOSE i \in DOMAIN rec :
        /\ \A j \in DOMAIN rec : rec[i] <= rec[j]
        /\ \A j \in DOMAIN rec : rec[j] = rec[i] => i <= j

\* a local variable that no assignment has bound yet
Unbound == [kind |-> "unbound"]

UnboundLocalError == [kind |-> "error", error |-> "UnboundLocalError"]

\* a call of get_direct_beam_position(radius_start, radius_finish), lines
\* 482-485, up to the loop of find_beam_offset_cross_correlation (lines
\* 460-462) on the pattern of the signal
GetDirectBeamPosition ==
    /\ SignalIdle
    /\ frame = NoFrame
    /\ \E radius_start \in OffsetRadii, radius_finish \in OffsetRadii :
         \E errors \in [radius_start..(radius_finish - 1) -> ErrorValues] :
            /\ sargs' = [op |-> "get_direct_beam_position",
                         radius_start |-> radius_start,
                         radius_finish |-> radius_finish]
            /\ frame' = [pc |-> "loop",
                         errors |-> errors,
                         radiusList |-> arange(radius_start, radius_finish),
                         errRecord |->
                             [i \in 1..(radius_finish - radius_start) |-> 0],
                         ind |-> 0,
                         index_min |-> Unbound,
                         index_mins |-> <<>>,
                         shift |-> Unbound]
    /\ before' = data
    /\ sresult' = NoResult
    /\ UNCHANGED <<data, generator, calls>>

\* one iteration of the loop, lines 464-478
OffsetIteration ==
    /\ frame.pc = "loop"
    /\ frame.ind < Len(frame.radiusList)
    /\ LET ind == frame.ind + 1
           radius == frame.radiusList[ind]
           errRecord == [frame.errRecord EXCEPT
                            ![ind] = Single(frame.errors[radius])]
           index_min == argmin(errRecord)
       IN  frame' = [frame EXCEPT
                        !.ind = ind,
                        !.errRecord = errRecord,
                        !.index_min = index_min,
                        !.index_mins = Append(@, index_min),
                        !.shift = RegisteredShift(
                                      Reference(data,
                                          frame.radiusList[index_min]),
                                      hann2d(data), FineUpsampling)]
    /\ UNCHANGED <<data, before, sargs, sresult, generator, calls>>

\* line 480, return shift, and the return of get_direct_beam_position
OffsetReturn ==
    /\ frame.pc = "loop"
    /\ frame.ind = Len(frame.radiusList)
    /\ sresult' = IF frame.shift = Unbound THEN UnboundLocalError
                  ELSE [kind |-> "shifts", shift |-> frame.shift]
    /\ frame' = [frame EXCEPT !.pc = "returned"]
    /\ UNCHANGED <<data, before, sargs, generator, calls>>

\* the caller has the shifts or the error; another pattern is loaded
OffsetDone ==
    /\ frame # NoFrame
    /\ frame.pc = "returned"
    /\ frame' = NoFrame
    /\ data' \in OffsetPatterns
    /\ before' = data'
    /\ sargs' = NoArgs
    /\ sresult' = NoResult
    /\ UNCHANGED <<generator, calls>>

InitOffset ==
    /\ wavelength = Min(Wavelengths)
    /\ max_excitation_error = Min(ExcitationErrors)
    /\ debye_waller_factors = [s \in {} |-> 0]
    /\ threads = {}
    /\ pc = [p \in Procs |-> "idle"]
    /\ args = [p \in Procs |-> NoArgs]
    /\ pts = [p \in Procs |-> <<>>]
    /\ gs = [p \in Procs |-> <<>>]
    /\ peaks = [p \in Procs |-> NoPeaks]
    /\ result = [p \in Procs |-> NoResult]
    /\ previous = [p \in Procs |-> NoResult]
    /\ data \in OffsetPatterns
    /\ before = data
    /\ sargs = NoArgs
    /\ sresult = NoResult
    /\ frame = NoFrame

NextOffset ==
    \/ GetDirectBeamPosition
    \/ OffsetIteration
    \/ OffsetReturn
    \/ OffsetDone

\* a call that has started runs on: nothing but its own steps can stop it
SpecOffset ==
    /\ InitOffset
    /\ [][NextOffset]_vars
    /\ WF_vars(OffsetIteration)
    /\ WF_vars(OffsetReturn)

-----------------------------------------------------------------------------
(* Properties of find_beam_offset_cross_correlation *)

\* the call has returned for radius_start < radius_finish
OffsetReturned ==
    /\ frame # NoFrame
    /\ frame.pc = "returned"
    /\ sargs.radius_start < sargs.radius_finish

\* the radii of [radius_start, radius_finish)
RadiiOfCall == sargs.radius_start..(sargs.radius_finish - 1)

\* the first radius whose error, measured by err, is the smallest
BestRadius(err) ==
    CHOOSE r \in RadiiOfCall :
        /\ \A q \in RadiiOfCall : err[r] <= err[q]
        /\ \A q \in RadiiOfCall : err[q] = err[r] => r <= q

\* the shift returned is the one registered against the circle of radius r
ShiftAgainst(r) ==
    /\ sresult.kind = "shifts"
    /\ sresult.shift = [f |-> "register_translation",
                        ref |-> Reference(data, r),
                        im |-> hann2d(data),
                        upsample_factor |-> 100]

\* the loop has run once per radius
OncePerRadius ==
    /\ frame.ind = sargs.radius_finish - sargs.radius_start
    /\ Len(frame.index_mins) = Cardinality(RadiiOfCall)

\* a call that has entered the loop returns
OffsetTerminates ==
    (frame # NoFrame /\ frame.pc = "loop")
        ~> (frame # NoFrame /\ frame.pc = "returned")

\* C30 as claimed: for radius_start < radius_finish the shift returned is
\* the one registered against the reference circle whose radius has the
\* smallest registration error of all radii in
\* [radius_start, radius_finish), the first such radius on ties; the loop
\* runs once per radius and terminates.
C30_ShiftOfSmallestError ==
    /\ [](OffsetReturned =>
             ShiftAgainst(BestRadius(frame.errors)) /\ OncePerRadius)
    /\ OffsetTerminates

\* C30 as amended: the same, the errors compared being the errors as
\* errRecord holds them, rounded to single precision.
C30_ShiftOfSmallestStoredError ==
    /\ [](OffsetReturned =>
             /\ ShiftAgainst(BestRadius(
                    [r \in RadiiOfCall |-> Single(frame.errors[r])]))
             /\ OncePerRadius)
    /\ OffsetTerminates

\* C30 witness: the call has returned after three iterations of which the
\* first took its minimum at an entry not filled yet; all errors are
\* positive, the smallest is that of two radii, and one of them differs
\* from the other before rounding.
C30_Witness ==
    /\ OffsetReturned
    /\ Len(frame.radiusList) = 3
    /\ frame.index_mins[1] = 2
    /\ \A r \in RadiiOfCall : Single(frame.errors[r]) > 0
    /\ frame.index_min = 2
    /\ frame.errRecord[2] = frame.errRecord[3]
    /\ frame.errors[sargs.radius_start + 1]
          # frame.errors[sargs.radius_start + 2]

====
